---------------------------- MODULE AtomicRegister ----------------------------
(***************************************************************************)
(* What "a replace is atomic" promises of one JSON file of the vault       *)
(* (the rules at the head of crates/store/src/atomic.rs).                  *)
(*                                                                         *)
(* A call takes effect at one instant between its start and its answer, or *)
(* not at all; a call that answered Err had no effect; a power cut undoes  *)
(* effects, the latest first, and never one that was answered "ok".  (The  *)
(* program cannot tell "ok" from "unsure": both are Ok(()).)               *)
(***************************************************************************)
EXTENDS Naturals, Sequences

CONSTANT Calls

VARIABLES
    effects, \* the calls that took effect, in order; the last is the content
    state    \* where each call is

Init ==
    /\ effects = <<>>
    /\ state = [c \in Calls |-> "new"]

Start(c) ==
    /\ state[c] = "new"
    /\ state' = [state EXCEPT ![c] = "open"]
    /\ UNCHANGED effects

TakeEffect(c) ==
    /\ state[c] = "open"
    /\ state' = [state EXCEPT ![c] = "done"]
    /\ effects' = Append(effects, c)

AnswerOk(c) ==
    /\ state[c] = "done"
    /\ state' = [state EXCEPT ![c] = "ok"]
    /\ UNCHANGED effects

(* The replacement was made, and may still be undone.                      *)
AnswerUnsure(c) ==
    /\ state[c] = "done"
    /\ state' = [state EXCEPT ![c] = "unsure"]
    /\ UNCHANGED effects

AnswerErr(c) ==
    /\ state[c] = "open"
    /\ state' = [state EXCEPT ![c] = "err"]
    /\ UNCHANGED effects

(* Calls whose process died are never answered.                            *)
Orphaned(S) == [c \in Calls |-> IF c \in S THEN "lost" ELSE state[c]]

Die ==
    \E S \in SUBSET {c \in Calls : state[c] \in {"open", "done"}} :
        /\ S # {}
        /\ state' = Orphaned(S)
        /\ UNCHANGED effects

PowerCut ==
    /\ \E k \in 0 .. Len(effects) :
          /\ \A i \in (k + 1) .. Len(effects) : state[effects[i]] # "ok"
          /\ effects' = SubSeq(effects, 1, k)
    /\ state' = Orphaned({c \in Calls : state[c] \in {"open", "done"}})

Next ==
    \/ \E c \in Calls :
          \/ Start(c)
          \/ TakeEffect(c)
          \/ AnswerOk(c) \/ AnswerUnsure(c) \/ AnswerErr(c)
    \/ Die
    \/ PowerCut

Spec == Init /\ [][Next]_<<effects, state>>
=============================================================================
