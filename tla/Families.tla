------------------------------- MODULE Families -------------------------------
(***************************************************************************)
(* What the sessions of an account promise to whoever holds a token.  A    *)
(* login opens a family, and each refresh hands its one head on to a       *)
(* successor that was never used before, until the family ends, which is   *)
(* for good.  The one exception is a refresh that loaded its token before  *)
(* that token was spent: it leaves a stray token.  Sessions, which has the *)
(* requests and their transactions, implements it.                         *)
(***************************************************************************)
EXTENDS Naturals

CONSTANT Tokens    \* refresh tokens, numbers from 1; the first names its family

VARIABLES
  family,    \* the family of each token, 0 for one that was never issued
  heads,     \* the tokens that families live by
  strays,    \* the valid tokens that refreshes issued late
  replayed,  \* the families that ended because a spent token came back
  epoch      \* how often everything was ended

vars == <<family, heads, strays, replayed, epoch>>

Init ==
  /\ family = [t \in Tokens |-> 0]
  /\ heads = {} /\ strays = {} /\ replayed = {}
  /\ epoch = 0

\* n is issued in this step, and nothing is revoked for good.
Issue(n) ==
  /\ family[n] = 0 /\ family'[n] # 0
  /\ UNCHANGED <<replayed, epoch>>

Open(n) ==
  /\ family' = [family EXCEPT ![n] = n]
  /\ heads' = heads \union {n}
  /\ UNCHANGED strays

HandOn(t, n) ==
  /\ t \in heads
  /\ family' = [family EXCEPT ![n] = family[t]]
  /\ heads' = (heads \ {t}) \union {n}
  /\ UNCHANGED strays

\* t is a stray itself, or was handed on or revoked in the meantime.
Stray(t, n) ==
  /\ t \notin heads
  /\ family' = [family EXCEPT ![n] = family[t]]
  /\ strays' = (strays \ {t}) \union {n}
  /\ UNCHANGED heads

\* A sign-out, or a token that is refused.
End(t) ==
  /\ heads' = heads \ {t} /\ strays' = strays \ {t}
  /\ UNCHANGED <<family, replayed, epoch>>

Replay(f) ==
  /\ family[f] # 0
  /\ replayed' = replayed \union {f}
  /\ heads' = {t \in heads : family[t] # f}
  /\ strays' = {t \in strays : family[t] # f}
  /\ UNCHANGED <<family, epoch>>

EndAll ==
  /\ epoch' = epoch + 1
  /\ heads' = {} /\ strays' = {}
  /\ UNCHANGED <<family, replayed>>

Next ==
  \/ \E n \in Tokens : /\ Issue(n)
                       /\ Open(n) \/ \E t \in Tokens : HandOn(t, n) \/ Stray(t, n)
  \/ \E t \in heads \union strays : End(t)
  \/ \E f \in Tokens : Replay(f)
  \/ EndAll

Spec == Init /\ [][Next]_vars

\* The families that have a head.
Lives == {family[t] : t \in heads}

\* A family that was opened and has no head never gets one again.
EndedForGood == [][\A f \in Tokens : family[f] # 0 /\ f \notin Lives => f \notin Lives']_vars
===============================================================================
