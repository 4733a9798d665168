-------------------------------- MODULE Seed --------------------------------
(***************************************************************************)
(* The bytes that guide generation (seed/seed.go): those of a given byte   *)
(* string in order, and random ones once it has run out.  A seed of random *)
(* bytes is one that was given none.                                       *)
(***************************************************************************)
EXTENDS Naturals, Sequences

CONSTANT Bytes
ASSUME SeedAssumption == Bytes \subseteq Nat /\ Bytes # {}

VARIABLES
  given,      \* generatedString of the pregenerated byte string
  index,      \* of the byte that comes next
  overflow    \* the bytes generated after it

seedVars == <<given, index, overflow>>

SeedTypeOK ==
  /\ given \in Seq(Bytes) /\ overflow \in Seq(Bytes)
  /\ index \in 0 .. Len(given) + 1

SeedInit(bytes) == given = bytes /\ index = 0 /\ overflow = << >>

(* GetPregeneratedByteString *)
NewSeed(bytes) == given' = bytes /\ index' = 0 /\ overflow' = << >>

(* The next byte is b. *)
GetByte(b) ==
  /\ UNCHANGED given
  /\ \/ /\ index < Len(given)
        /\ b = given[index + 1]
        /\ index' = index + 1
        /\ UNCHANGED overflow
     \/ /\ index = Len(given)
        /\ index' = index + 1
        /\ overflow' = << b >>
     \/ /\ index > Len(given)
        /\ overflow' = Append(overflow, b)
        /\ UNCHANGED index

(* Wrong on purpose: only what was given. *)
GetByteStringMutant == given

GetByteString == given \o overflow
=============================================================================
