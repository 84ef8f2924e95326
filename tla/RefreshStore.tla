---------------------------- MODULE RefreshStore ----------------------------
(* The contract of authkit.RefreshTokenStore: every call of every goroutine  *)
(* takes effect at one instant, or fails, and a call that fails may have     *)
(* taken effect all the same (a statement committed, its reply lost).  Only  *)
(* a Validate may look the token up at one instant and answer at another;    *)
(* then it answers what was true when it looked, or that the token, good at  *)
(* that time, has expired, even if it was revoked before that.               *)
EXTENDS RefreshLedger

CONSTANTS Callers,   \* goroutines that use the store
          Expiries   \* expiry times callers pass, in Unix seconds

VARIABLES answer,    \* answer[c]: what the last call of c returned
          looked     \* looked[c]: the Validate of c between its two instants

vars == <<now, ledger, answer, looked>>

Answer(op, verdict, token) == [op |-> op, verdict |-> verdict, token |-> token]
NoAnswer == Answer("none", "none", NoToken)

\* The token looked up, and what was true of it then.
NotLooking == [token |-> NoToken, verdict |-> "none"]

Init ==
    /\ LedgerInit
    /\ answer = [c \in Callers |-> NoAnswer]
    /\ looked = [c \in Callers |-> NotLooking]

Reply(c, op, verdict, token) ==
    answer' = [answer EXCEPT ![c] = Answer(op, verdict, token)]

Issue(c, o, user, expires, prev) ==
    /\ o \notin DOMAIN ledger
    /\ \/ /\ ledger' = WithIssued(o, user, expires, prev)
          /\ Reply(c, "issue", "ok", o)
       \/ /\ ledger' = WithIssued(o, user, expires, prev)
          /\ Reply(c, "issue", "error", NoToken)
    /\ UNCHANGED <<now, looked>>

\* An Issue that stored nothing.
IssueFails(c) ==
    /\ Reply(c, "issue", "error", NoToken)
    /\ UNCHANGED <<now, ledger, looked>>

Validate(c, o) ==
    /\ \/ Reply(c, "validate", ValidateVerdict(o), o)
       \/ Reply(c, "validate", "error", o)
    /\ UNCHANGED <<now, ledger, looked>>

LookUp(c, o) ==
    /\ o \in DOMAIN ledger
    /\ looked' = [looked EXCEPT ![c] =
                    [token |-> o, verdict |-> ValidateVerdict(o)]]
    /\ UNCHANGED <<now, ledger, answer>>

Judge(c) ==
    /\ \/ Reply(c, "validate", looked[c].verdict, looked[c].token)
       \/ /\ looked[c].verdict = "ok"
          /\ Before(ledger[looked[c].token].expires)
          /\ Reply(c, "validate", "expired", looked[c].token)
    /\ looked' = [looked EXCEPT ![c] = NotLooking]
    /\ UNCHANGED <<now, ledger>>

Revoke(c, o) ==
    /\ \/ ledger' = WithRevoked(o) /\ Reply(c, "revoke", RevokeVerdict(o), o)
       \/ ledger' = WithRevoked(o) /\ Reply(c, "revoke", "error", o)
       \/ UNCHANGED ledger /\ Reply(c, "revoke", "error", o)
    /\ UNCHANGED <<now, looked>>

Tick == Advance /\ UNCHANGED <<ledger, answer, looked>>

Next ==
    \/ \E c \in Callers : looked[c] # NotLooking /\ Judge(c)
    \/ \E c \in Callers :
          /\ looked[c] = NotLooking
          /\ \/ \E o \in Opaques, user \in Users, expires \in Expiries,
                   prev \in DOMAIN ledger \cup {NoToken} :
                   Issue(c, o, user, expires, prev)
             \/ IssueFails(c)
             \/ \E o \in Opaques \cup {NoToken} :
                   Validate(c, o) \/ LookUp(c, o) \/ Revoke(c, o)
    \/ Tick

Spec == Init /\ [][Next]_vars
=============================================================================
