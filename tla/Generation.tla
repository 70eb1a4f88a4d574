----------------------------- MODULE Generation -----------------------------
(***************************************************************************)
(* The generation counter that drives the hub (state.py).  The hub never   *)
(* compares generations by size: it re-fetches its programme when the      *)
(* number it is told differs from the number it holds.                     *)
(***************************************************************************)
EXTENDS Integers, Sequences

CONSTANTS
  GenerationMax,         \* the counter cycles 1..GenerationMax (0x1fff)
  Captured,              \* generations with a captured checksum, ascending
  RestrictGenerations,   \* step through Captured only
  ConfiguredGeneration   \* initial_generation in config.yaml; 0 when absent

(* Two values are the least for which a step can change the number.        *)
ASSUME GenerationMaxAssumption == GenerationMax \in Nat /\ GenerationMax >= 2

(* generations_for sorts the captured numbers; none of them is 0, which    *)
(* the hub treats as a fresh boot.                                         *)
ASSUME CapturedAssumption ==
  /\ Captured \in Seq(Nat \ {0})
  /\ Len(Captured) >= 2
  /\ \A i, j \in 1 .. Len(Captured) : i < j => Captured[i] < Captured[j]

ASSUME RestrictAssumption == RestrictGenerations \in BOOLEAN

ASSUME ConfiguredAssumption == ConfiguredGeneration \in Nat

CapturedGenerations == {Captured[i] : i \in 1 .. Len(Captured)}

(* Position of g in Captured, 0 when it is absent.                         *)
Position(g) ==
  IF g \in CapturedGenerations
    THEN CHOOSE i \in 1 .. Len(Captured) : Captured[i] = g
    ELSE 0

(* The number HubState starts with.                                        *)
InitialGeneration ==
  IF \/ ConfiguredGeneration = 0
     \/ RestrictGenerations /\ ConfiguredGeneration \notin CapturedGenerations
    THEN Captured[1]
    ELSE ConfiguredGeneration

(* Mutant: the cycle reaches 0, the number of a fresh boot.                *)
BumpThroughZero(g) ==
  IF RestrictGenerations
    THEN Captured[(Position(g) % Len(Captured)) + 1]
    ELSE (g + 1) % GenerationMax

(* The number after g.                                                     *)
Bump(g) ==
  IF RestrictGenerations
    THEN Captured[(Position(g) % Len(Captured)) + 1]
    ELSE (g % GenerationMax) + 1

=============================================================================
