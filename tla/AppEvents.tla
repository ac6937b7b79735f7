----------------------------- MODULE AppEvents -----------------------------
(***************************************************************************)
(* The events of the applications of a pipeline, as the workflows that     *)
(* follow a load see them: each event stands for the rows of one file.     *)
(***************************************************************************)
EXTENDS Integers, FiniteSets

CONSTANTS Event, App, AppOf

ASSUME AppEventsAssumption == IsFiniteSet(Event) /\ AppOf \in [Event -> App]
=============================================================================
