------------------------------ MODULE UndoStore ------------------------------
(***************************************************************************)
(* What the journal promises a program: a state that can be changed in       *)
(* transactions, kept over restarts, and taken back one transaction at a     *)
(* time.  Undo is itself a transaction: it can be undone, and nothing that   *)
(* was ever committed is forgotten before the journal is compacted.          *)
(***************************************************************************)
EXTENDS Integers, Sequences

CONSTANTS
  State, \* states of the program's objects
  Blank  \* the state without objects, one of them

VARIABLES
  up,    \* is the project open?
  shown, \* the state of the program, Blank while the project is not open
  past,  \* the states committed, oldest first
  point  \* index in past of the state the program is at, 0 when not open

vars == <<up, shown, past, point>>

Committed == past[Len(past)]

Init == up = FALSE /\ shown = Blank /\ past = <<Blank>> /\ point = 0

(* changes inside a transaction *)
Work ==
  /\ up /\ UNCHANGED up
  /\ UNCHANGED <<past, point>>
  /\ shown' \in State

Commit ==
  /\ up /\ UNCHANGED up
  /\ past' = Append(past, shown')
  /\ point' = Len(past')
  /\ shown' \in State

(* The last transaction that is not taken back yet is. *)
Undo ==
  /\ up /\ UNCHANGED up
  /\ point > 1 /\ point' = point - 1
  /\ shown = Committed
  /\ shown' = past[point - 1]
  /\ past' = Append(past, shown')

(* The past is given up for the state it led to. *)
Compact ==
  /\ up /\ UNCHANGED up
  /\ shown = Committed /\ shown' = shown
  /\ point' = 2 /\ past' = <<Blank, shown>>

(* The program ends, orderly or not: work that was not committed is lost. *)
Stop ==
  /\ up /\ up' = FALSE
  /\ shown' = Blank /\ point' = 0
  /\ UNCHANGED past

Start ==
  /\ ~up /\ up' = TRUE
  /\ shown' = Committed /\ point' = Len(past)
  /\ UNCHANGED past

Next == Work \/ Commit \/ Undo \/ Compact \/ Stop \/ Start

Spec == Init /\ [][Next]_vars
=============================================================================
