----------------------------- MODULE CandleStore -----------------------------
(***************************************************************************)
(* What the candle table of one symbol promises to its readers, whoever    *)
(* fills it: time goes on, a candle appears once and never changes, and    *)
(* only a minute that has begun has one. Every reader downstream (the      *)
(* feature job, the gap check) relies on that.                             *)
(***************************************************************************)
EXTENDS Naturals

CONSTANT LastMinute   \* bound: the last minute of a behaviour

Minutes == 1 .. LastMinute

(* "partial" is a candle of a minute that had not ended when it was read. *)
Kinds == {"none", "final", "partial"}

VARIABLES now,    \* the minute that forms
          table   \* Minutes -> Kinds

cvars == <<now, table>>

CInit == now = 1 /\ table = [m \in Minutes |-> "none"]

MinutePasses == now < LastMinute /\ now' = now + 1 /\ UNCHANGED table

\* One transaction: any number of candles the table does not have.
AddCandles ==
    /\ table' \in [Minutes -> Kinds]
    /\ \A m \in Minutes :
          table'[m] # table[m] =>
              /\ table[m] = "none"
              /\ m <= now
              /\ table'[m] = "final" => m < now
    /\ UNCHANGED now

CNext == MinutePasses \/ AddCandles

CSpec == CInit /\ [][CNext]_cvars
=============================================================================
