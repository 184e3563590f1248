----------------------------- MODULE TokenRenewal -----------------------------
(***************************************************************************)
(* The token the agent shows to slurmrestd (slurmrestd/auth.py, mode       *)
(* auto): every request thread calls headers(), which generates the token  *)
(* at first and renews it shortly before it expires.  The expiration and   *)
(* the token it belongs to are two attributes, set one after the other and *)
(* read one after the other, without a lock.                               *)
(*                                                                         *)
(* Times are what is left of them: 0 is over.                              *)
(***************************************************************************)
EXTENDS Integers

CONSTANTS
  Callers,   \* request threads of the agent
  Lifespan,  \* jwt_lifespan
  Margin,    \* a token is renewed when it has less than this left (60 s)
  Delay      \* bound: ticks from the expiration to the token, from the look to the read

(* No thread takes half the margin from one line to the next.              *)
ASSUME TokenAssumption ==
  /\ Lifespan \in Nat /\ Margin \in Nat /\ Delay \in Nat
  /\ 2 * Delay < Margin /\ Margin < Lifespan

NoToken == -1

VARIABLES
  token,       \* what is left of jwt_token
  expiration,  \* what is left before the expiration attribute
  step,        \* where each thread is in headers()
  waited       \* ticks since it set the expiration or looked at it

tokenVars == <<token, expiration, step, waited>>

TokenInit ==
  /\ token = NoToken /\ expiration = 0
  /\ step = [c \in Callers |-> "idle"]
  /\ waited = [c \in Callers |-> 0]

Go(c, place) ==
  /\ step' = [step EXCEPT ![c] = place]
  /\ waited' = [waited EXCEPT ![c] = 0]

Call(c) ==
  /\ step[c] = "idle"
  /\ Go(c, IF token = NoToken THEN "generate" ELSE "gap")
  /\ UNCHANGED <<token, expiration>>

(* _generate_token() sets the expiration and makes the token, which its    *)
(* caller stores: of the first token, the expiration is looked at as well. *)
Generate(c) ==
  /\ step[c] \in {"generate", "renew"}
  /\ expiration' = Lifespan
  /\ Go(c, IF step[c] = "generate" THEN "store" ELSE "replace")
  /\ UNCHANGED token

Store(c) ==
  /\ step[c] \in {"store", "replace"}
  /\ token' \in (Lifespan - waited[c])..Lifespan
  /\ Go(c, IF step[c] = "store" THEN "gap" ELSE "send")
  /\ UNCHANGED expiration

(* Is the token to be renewed?  The mutant waits until it is over.         *)
Soon_Over(gap) == gap < 0

Soon(gap) == gap < Margin

Gap(c) ==
  /\ step[c] = "gap"
  /\ Go(c, IF Soon(expiration) THEN "renew" ELSE "send")
  /\ UNCHANGED <<token, expiration>>

(* The token is read.                                                      *)
Send(c) ==
  /\ step[c] = "send"
  /\ Go(c, "idle")
  /\ UNCHANGED <<token, expiration>>

Timed(c) == step[c] \in {"store", "replace", "send"}

Elapse ==
  /\ \A c \in Callers : Timed(c) => waited[c] < Delay
  /\ token' = IF token > 0 THEN token - 1 ELSE token
  /\ expiration' = IF expiration > 0 THEN expiration - 1 ELSE 0
  /\ waited' = [c \in Callers |-> IF Timed(c) THEN waited[c] + 1 ELSE 0]
  /\ UNCHANGED step

TokenNext ==
  \/ Elapse
  \/ \E c \in Callers : Call(c) \/ Generate(c) \/ Store(c) \/ Gap(c) \/ Send(c)

TokenSpec == TokenInit /\ [][TokenNext]_tokenVars

-----------------------------------------------------------------------------
TokenTypeOK ==
  /\ token \in NoToken..Lifespan
  /\ expiration \in 0..Lifespan
  /\ step \in [Callers -> {"idle", "generate", "store", "gap", "renew", "replace", "send"}]
  /\ waited \in [Callers -> 0..Delay]

(* A thread reads an expired token, which slurmrestd refuses, only while   *)
(* another one is renewing it: it has set the expiration of the next token *)
(* and not stored that token yet.                                          *)
ExpiredOnlyDuringRenewal ==
  \A c \in Callers :
    step[c] = "send" /\ token = 0 => \E d \in Callers : step[d] \in {"store", "replace"}
=============================================================================
