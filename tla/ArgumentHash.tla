----------------------------- MODULE ArgumentHash ----------------------------
(***************************************************************************)
(* hashing.go: how the arguments of a memoized function become a key.      *)
(*                                                                         *)
(* A hash is what it was started from and the numbers mixed in since, so   *)
(* two of them are equal only if the code computes them from the same      *)
(* numbers in the same order: collisions of FNV-1a itself are left out.    *)
(***************************************************************************)
EXTENDS Naturals, Sequences, SequencesExt

Hashes == [from : {"offset64", "trueHash", "zero"}, mixed : Seq(Nat)]

offset64 == [from |-> "offset64", mixed |-> << >>]

\* ^ binds weaker than *: trueHash is offset64 ^ prime64, falseHash is offset64.
trueHash  == [from |-> "trueHash", mixed |-> << >>]
falseHash == offset64

\* (hash ^ x) * prime64, of a machine word or of one byte of a string
Mix(h, x) == [h EXCEPT !.mixed = Append(@, x)]
MixAll(h, s) == FoldLeft(Mix, h, s)

\* Mutant: the loop for the characters after the last four is missing.
HashWholeFours(h, key) == MixAll(h, SubSeq(key, 1, (Len(key) \div 4) * 4))

\* Four characters at a time, then the remaining ones.
hashString(h, key) ==
    LET body == (Len(key) \div 4) * 4
    IN  MixAll(MixAll(h, SubSeq(key, 1, body)), SubSeq(key, body + 1, Len(key)))

hashBool(key) == IF key THEN trueHash ELSE falseHash

\* An argument is its type and its value: the bytes of a string, the bits of a
\* number sign-extended to 64 of them, a truth value.
hash(h, arg) ==
    CASE arg.type = "string" -> hashString(h, arg.value)
      [] arg.type = "number" -> Mix(h, arg.value)
      [] arg.type = "bool"   -> hashBool(arg.value)

\* hash1 to hash7
HashArguments(args) == FoldLeft(hash, offset64, args)

\* The key of the parameterless variants (memoize.go).
ZeroKey == [from |-> "zero", mixed |-> << >>]

KeyOf(args) == IF args = << >> THEN ZeroKey ELSE HashArguments(args)
==============================================================================
