---------------------------- MODULE RecoveryGate ----------------------------
(***************************************************************************)
(* The gate directory beside a database: how processes that open the       *)
(* database and a process that moves it aside keep out of each other's way *)
(* with nothing but files.  sqlite-open-recovery.ts, and the attested part *)
(* of desktop/main/desktop-state-database.ts.                              *)
(*                                                                         *)
(* A reader publishes a token and then looks for an exclusive intent; an   *)
(* exclusive holder publishes its intent and then waits until no token is  *)
(* left.  Every step is one call of the file system, so that processes     *)
(* interleave between any two of them.                                     *)
(***************************************************************************)

CONSTANTS
    Proc,       \* the processes
    Token,      \* the names that reader tokens may have
    NoProc,
    NoToken

ASSUME GateAssumption == NoProc \notin Proc /\ NoToken \notin Token

\* write_private_file_exclusive creates a marker and then writes it: a process that
\* dies in between leaves it torn.
Marker == {"absent", "torn", "valid"}

VARIABLES
    intent,     \* the exclusive-intent marker
    intentOf,   \* the process whose token a valid intent holds
    readers,    \* the <token>.reader markers
    block,      \* the recovery-block.json marker
    pc,         \* what each process is doing
    token,      \* the token a reader has created
    attested    \* the process acting on the user's word that all others are closed

gateVars == <<intent, intentOf, readers, block, pc, token, attested>>

Reading == {"starting", "creating", "writing", "checking", "withdrawing", "open"}
Tokened == {"writing", "checking", "withdrawing", "open"}
Claiming == {"claiming", "draining", "drained", "blocking"}
Holding == {"drained", "blocking"}

TypeOK ==
    /\ intent \in Marker
    /\ intentOf \in Proc \cup {NoProc}
    /\ readers \in [Token -> Marker]
    /\ block \in Marker
    /\ pc \in [Proc -> {"closed", "clearing", "claiming", "draining"} \cup Reading \cup Holding]
    /\ token \in [Proc -> Token \cup {NoToken}]
    /\ attested \in Proc \cup {NoProc}
    /\ \A p \in Proc : (token[p] = NoToken) <=> (pc[p] \notin Tokened)

GateInit ==
    /\ intent = "absent"
    /\ intentOf = NoProc
    /\ readers = [t \in Token |-> "absent"]
    /\ block = "absent"
    /\ pc = [p \in Proc |-> "closed"]
    /\ token = [p \in Proc |-> NoToken]
    /\ attested = NoProc

goto(p, from, to) == pc[p] = from /\ pc' = [pc EXCEPT ![p] = to]

\* Nobody starts while a process acts on the attestation.
mayStart(p) == pc[p] = "closed" /\ attested = NoProc

-----------------------------------------------------------------------------
(* Readers: acquire_sqlite_shared_reader_gate *)

BeginOpen(p) ==
    /\ mayStart(p)
    /\ goto(p, "closed", "starting")
    /\ UNCHANGED <<intent, intentOf, readers, block, token, attested>>

\* While there is an intent, whoever it is of and torn or not, the reader retries.
CheckIntent(p) ==
    /\ intent = "absent"
    /\ goto(p, "starting", "creating")
    /\ UNCHANGED <<intent, intentOf, readers, block, token, attested>>

CreateToken(p) ==
    /\ goto(p, "creating", "writing")
    /\ \E t \in Token :
        /\ readers[t] = "absent"
        /\ \A q \in Proc : token[q] # t
        /\ readers' = [readers EXCEPT ![t] = "torn"]
        /\ token' = [token EXCEPT ![p] = t]
    /\ UNCHANGED <<intent, intentOf, block, attested>>

WriteToken(p) ==
    /\ goto(p, "writing", "checking")
    /\ readers' = [readers EXCEPT ![token[p]] = "valid"]
    /\ UNCHANGED <<intent, intentOf, block, token, attested>>

\* Mutant: the reader trusts its first look at the intent.
RecheckIntent_once(p) ==
    /\ goto(p, "checking", "open")
    /\ UNCHANGED <<intent, intentOf, readers, block, token, attested>>

RecheckIntent(p) ==
    /\ goto(p, "checking", IF intent = "absent" THEN "open" ELSE "withdrawing")
    /\ UNCHANGED <<intent, intentOf, readers, block, token, attested>>

removeToken(p) ==
    /\ readers[token[p]] = "valid"
    /\ readers' = [readers EXCEPT ![token[p]] = "absent"]
    /\ token' = [token EXCEPT ![p] = NoToken]

\* Mutant: a reader that gives way leaves its token behind.
Withdraw_with_token(p) ==
    /\ goto(p, "withdrawing", "starting")
    /\ UNCHANGED <<intent, intentOf, readers, block, token, attested>>

Withdraw(p) ==
    /\ goto(p, "withdrawing", "starting")
    /\ removeToken(p)
    /\ UNCHANGED <<intent, intentOf, block, attested>>

CloseReader(p) ==
    /\ goto(p, "open", "closed")
    /\ removeToken(p)
    /\ UNCHANGED <<intent, intentOf, block, attested>>

-----------------------------------------------------------------------------
(* The attested clearing of what dead processes left: *)
(* quarantine_malformed_sqlite_gate_markers, reclaim_stale_sqlite_exclusive_intent *)

Attest(p) ==
    /\ mayStart(p)
    /\ \A q \in Proc : pc[q] = "closed"
    /\ attested' = p
    /\ goto(p, "closed", "clearing")
    /\ UNCHANGED <<intent, intentOf, readers, block, token>>

tornReaders == {t \in Token : readers[t] = "torn"}

nothingTorn == tornReaders = {} /\ intent # "torn" /\ block # "torn"

QuarantineReader(p) ==
    /\ pc[p] = "clearing"
    /\ \E t \in tornReaders : readers' = [readers EXCEPT ![t] = "absent"]
    /\ UNCHANGED <<intent, intentOf, block, pc, token, attested>>

QuarantineIntent(p) ==
    /\ pc[p] = "clearing"
    /\ tornReaders = {}
    /\ intent = "torn"
    /\ intent' = "absent"
    /\ UNCHANGED <<intentOf, readers, block, pc, token, attested>>

QuarantineBlock(p) ==
    /\ pc[p] = "clearing"
    /\ tornReaders = {}
    /\ intent # "torn"
    /\ block = "torn"
    /\ block' = "absent"
    /\ UNCHANGED <<intent, intentOf, readers, pc, token, attested>>

ReclaimIntent(p) ==
    /\ pc[p] = "clearing"
    /\ nothingTorn
    /\ intent = "valid"
    /\ intent' = "absent"
    /\ intentOf' = NoProc
    /\ UNCHANGED <<readers, block, pc, token, attested>>

-----------------------------------------------------------------------------
(* The exclusive holder: acquire_sqlite_exclusive_recovery_gate *)

\* With an intent on the name the creation fails and the process stays as it is.
createIntent(p, from) ==
    /\ goto(p, from, "claiming")
    /\ intent = "absent"
    /\ intent' = "torn"
    /\ UNCHANGED <<intentOf, readers, block, token, attested>>

BeginExclusive(p) == mayStart(p) /\ createIntent(p, "closed")

ClaimAttested(p) == nothingTorn /\ createIntent(p, "clearing")

WriteIntent(p) ==
    /\ goto(p, "claiming", "draining")
    /\ intent' = "valid"
    /\ intentOf' = p
    /\ UNCHANGED <<readers, block, token, attested>>

\* Mutant: stale tokens are reclaimed without the confirmation.
ReclaimToken_unconfirmed(p) ==
    /\ pc[p] = "draining"
    /\ \E t \in Token : /\ readers[t] = "valid"
                        /\ readers' = [readers EXCEPT ![t] = "absent"]
    /\ UNCHANGED <<intent, intentOf, block, pc, token, attested>>

\* reclaimStaleReaderToken, for each token on the list.
ReclaimToken(p) ==
    /\ pc[p] = "draining"
    /\ attested = p
    /\ \E t \in Token : /\ readers[t] = "valid"
                        /\ readers' = [readers EXCEPT ![t] = "absent"]
    /\ UNCHANGED <<intent, intentOf, block, pc, token, attested>>

\* waitForReaders: a torn token counts, for it has a token's name.
Drain(p) ==
    /\ \A t \in Token : readers[t] = "absent"
    /\ goto(p, "draining", "drained")
    /\ UNCHANGED <<intent, intentOf, readers, block, token, attested>>

CreateBlock(p) ==
    /\ goto(p, "drained", "blocking")
    /\ block = "absent"
    /\ block' = "torn"
    /\ UNCHANGED <<intent, intentOf, readers, token, attested>>

WriteBlock(p) ==
    /\ goto(p, "blocking", "drained")
    /\ block' = "valid"
    /\ UNCHANGED <<intent, intentOf, readers, token, attested>>

RemoveBlock(p) ==
    /\ pc[p] = "drained"
    /\ block = "valid"
    /\ block' = "absent"
    /\ UNCHANGED <<intent, intentOf, readers, pc, token, attested>>

unattest(p) == attested' = IF attested = p THEN NoProc ELSE attested

\* When the holder is done, or when it gives up waiting because something failed.
Release(p) ==
    /\ goto(p, "drained", "closed") \/ goto(p, "draining", "closed")
    /\ block = "absent"
    /\ intent = "valid" /\ intentOf = p
    /\ intent' = "absent"
    /\ intentOf' = NoProc
    /\ unattest(p)
    /\ UNCHANGED <<readers, block, token>>

\* A process dies, or an operation throws and leaves the files as they are.  So does a
\* holder whose release is refused because of a blockade.
Crash(p) ==
    /\ pc[p] # "closed"
    /\ pc' = [pc EXCEPT ![p] = "closed"]
    /\ token' = [token EXCEPT ![p] = NoToken]
    /\ unattest(p)
    /\ UNCHANGED <<intent, intentOf, readers, block>>

-----------------------------------------------------------------------------

\* The steps a process takes by itself once it has begun.
ReaderStep(p) ==
    CheckIntent(p) \/ CreateToken(p) \/ WriteToken(p) \/ RecheckIntent(p) \/ Withdraw(p)

ClearingStep(p) ==
    \/ QuarantineReader(p) \/ QuarantineIntent(p) \/ QuarantineBlock(p)
    \/ ReclaimIntent(p) \/ ClaimAttested(p)

HolderStep(p) ==
    \/ WriteIntent(p) \/ ReclaimToken(p) \/ Drain(p)
    \/ CreateBlock(p) \/ WriteBlock(p) \/ RemoveBlock(p) \/ Release(p)

GateNext ==
    \E p \in Proc :
        \/ BeginOpen(p) \/ ReaderStep(p) \/ CloseReader(p)
        \/ Attest(p) \/ ClearingStep(p)
        \/ BeginExclusive(p) \/ HolderStep(p)
        \/ Crash(p)

GateSpec == GateInit /\ [][GateNext]_gateVars

\* The event loop of a process runs on.  Users need not close what they have open, and
\* what a holder does with the set is its own affair.
LiveGateSpec ==
    GateSpec /\ \A p \in Proc : WF_gateVars(ReaderStep(p)) /\ WF_gateVars(Drain(p))

-----------------------------------------------------------------------------
(* Properties *)

\* Nobody has the database open while somebody moves it, and only one does: the
\* reader's second look at the intent and the holder's wait for tokens are enough,
\* whatever the order of the steps, whoever died before, whatever was torn.
MutualExclusion ==
    \A p, q \in Proc :
        pc[p] \in Holding /\ p # q => pc[q] # "open" /\ pc[q] \notin Holding

\* The token of a reader stays its own: neither quarantine nor reclamation takes it
\* from a process that has the database open, so that closing finds it.
OpenersKeepTokens ==
    \A p \in Proc :
        pc[p] = "open" => /\ readers[token[p]] = "valid"
                          /\ \A q \in Proc \ {p} : token[q] # token[p]

\* A token whose reader is through the door, or gone.
settled(t) ==
    \A p \in Proc : token[p] = t => pc[p] = "open"

\* waitForReaders has no deadline.  It never waits for a reader that in turn waits for
\* the intent to go: only for open databases and for what dead processes left.
WaitsOnlyForTheSettled ==
    \A p \in Proc :
        pc[p] = "draining" ~> \/ pc[p] # "draining"
                              \/ \E t \in Token : readers[t] # "absent" /\ settled(t)
=============================================================================
