------------------------- MODULE OpenRecoveryProofs -------------------------
(***************************************************************************)
(* The gate keeps its promise (MutualExclusion of RecoveryGate), for any   *)
(* processes and tokens.  The files of a database change under the gate:   *)
(* each step on them is one of the gate or leaves it alone, and from the   *)
(* gate's invariant follows that a connection stays one to the canonical   *)
(* file.  FilesInv says where each file of the set is while it moves: from *)
(* it follow the module's other properties, for any processes, files,      *)
(* directories, failures and deaths.                                       *)
(***************************************************************************)
EXTENDS OpenRecovery, TLAPS

-----------------------------------------------------------------------------
(* The gate *)

\* A reader's token is on disk as it left it, and its own.
TokensOwned ==
    /\ \A p \in Proc : pc[p] = "writing" => readers[token[p]] = "torn"
    /\ \A p \in Proc : pc[p] \in {"checking", "withdrawing", "open"}
                           => readers[token[p]] = "valid"
    /\ \A p, q \in Proc : token[p] # NoToken /\ p # q => token[q] # token[p]

\* A claimant's intent is on disk, and there is one claimant.
IntentClaimed ==
    /\ \A p \in Proc : pc[p] = "claiming" => intent = "torn"
    /\ \A p \in Proc : pc[p] \in Claiming \ {"claiming"} => intent = "valid" /\ intentOf = p
    /\ \A p, q \in Proc : pc[p] \in Claiming /\ pc[q] \in Claiming => p = q

\* Who acts on the attestation is alone.
AttestedAlone ==
    /\ \A p \in Proc : pc[p] = "clearing" => attested = p
    /\ \A p \in Proc : attested = p => pc[p] \in Claiming \cup {"clearing"}
    /\ \A p, q \in Proc : attested = p /\ q # p => pc[q] = "closed"

\* While a process holds, no door is open.
DoorsShut ==
    \A p, q \in Proc : pc[p] \in Holding => pc[q] # "open"

IInv == TypeOK /\ TokensOwned /\ IntentClaimed /\ AttestedAlone /\ DoorsShut

\* The empty gate directory satisfies the invariant.
LEMMA InitInvariant == GateInit => IInv
BY GateAssumption DEF GateInit, IInv, TypeOK, TokensOwned, IntentClaimed, AttestedAlone,
    DoorsShut, Marker, Reading, Tokened, Claiming, Holding

\* Every call of the file system, and every death in between, preserves it.
LEMMA StepInvariant == IInv /\ [GateNext]_gateVars => IInv'
<1>. SUFFICES ASSUME IInv, [GateNext]_gateVars PROVE IInv'
  OBVIOUS
<1>. USE DEF IInv, TypeOK, TokensOwned, IntentClaimed, AttestedAlone, DoorsShut,
      Marker, Reading, Tokened, Claiming, Holding
<1>1. CASE UNCHANGED gateVars
  BY <1>1 DEF gateVars
<1>2. ASSUME NEW p \in Proc,
             \/ BeginOpen(p) \/ ReaderStep(p) \/ CloseReader(p)
             \/ Attest(p) \/ ClearingStep(p)
             \/ BeginExclusive(p) \/ HolderStep(p)
             \/ Crash(p)
      PROVE  IInv'
  <2>1. CASE BeginOpen(p)
    BY <2>1, GateAssumption DEF BeginOpen, mayStart, goto
  <2>2. CASE CheckIntent(p)
    BY <2>2, GateAssumption DEF CheckIntent, goto
  <2>3. CASE CreateToken(p)
    BY <2>3, GateAssumption DEF CreateToken, goto
  <2>4. CASE WriteToken(p)
    BY <2>4, GateAssumption DEF WriteToken, goto
  <2>5. CASE RecheckIntent(p)
    BY <2>5, GateAssumption DEF RecheckIntent, goto
  <2>6. CASE Withdraw(p)
    BY <2>6, GateAssumption DEF Withdraw, goto, removeToken
  <2>7. CASE CloseReader(p)
    BY <2>7, GateAssumption DEF CloseReader, goto, removeToken
  <2>8. CASE Attest(p)
    BY <2>8, GateAssumption DEF Attest, mayStart, goto
  <2>9. CASE QuarantineReader(p)
    BY <2>9, GateAssumption DEF QuarantineReader, tornReaders
  <2>10. CASE QuarantineIntent(p)
    BY <2>10, GateAssumption DEF QuarantineIntent
  <2>11. CASE QuarantineBlock(p)
    BY <2>11, GateAssumption DEF QuarantineBlock
  <2>12. CASE ReclaimIntent(p)
    BY <2>12, GateAssumption DEF ReclaimIntent
  <2>13. CASE BeginExclusive(p)
    BY <2>13, GateAssumption DEF BeginExclusive, mayStart, createIntent, goto
  <2>14. CASE ClaimAttested(p)
    BY <2>14, GateAssumption DEF ClaimAttested, createIntent, goto
  <2>15. CASE WriteIntent(p)
    BY <2>15, GateAssumption DEF WriteIntent, goto
  <2>16. CASE ReclaimToken(p)
    BY <2>16, GateAssumption DEF ReclaimToken
  <2>17. CASE Drain(p)
    BY <2>17, GateAssumption DEF Drain, goto
  <2>18. CASE CreateBlock(p)
    BY <2>18, GateAssumption DEF CreateBlock, goto
  <2>19. CASE WriteBlock(p)
    BY <2>19, GateAssumption DEF WriteBlock, goto
  <2>20. CASE RemoveBlock(p)
    BY <2>20, GateAssumption DEF RemoveBlock
  <2>21. CASE Release(p)
    BY <2>21, GateAssumption DEF Release, goto, unattest
  <2>22. CASE Crash(p)
    BY <2>22, GateAssumption DEF Crash, unattest
  <2>. QED BY <1>2, <2>1, <2>2, <2>3, <2>4, <2>5, <2>6, <2>7, <2>8, <2>9, <2>10, <2>11, <2>12, <2>13, <2>14, <2>15, <2>16, <2>17, <2>18, <2>19, <2>20, <2>21, <2>22 DEF ReaderStep, ClearingStep, HolderStep
<1>. QED BY <1>1, <1>2 DEF GateNext

\* All of the gate's states satisfy the invariant.
THEOREM GateInvariant == GateSpec => []IInv
<1>1. GateInit => IInv
  BY InitInvariant
<1>2. IInv /\ [GateNext]_gateVars => IInv'
  BY StepInvariant
<1>. QED BY <1>1, <1>2, PTL DEF GateSpec

\* The markers and program counters have their types.
THEOREM GateTypeCorrect == GateSpec => []TypeOK
<1>1. IInv => TypeOK
  BY DEF IInv
<1>. QED BY <1>1, GateInvariant, PTL

\* No number of processes, in no order and after no deaths, has the database open
\* while one of them moves it.
THEOREM MutuallyExclusive == GateSpec => []MutualExclusion
<1>1. IInv => MutualExclusion
  <2>. SUFFICES ASSUME IInv, NEW p \in Proc, NEW q \in Proc, pc[p] \in Holding, p # q
                PROVE  pc[q] # "open" /\ pc[q] \notin Holding
    BY DEF MutualExclusion
  <2>1. pc[q] # "open"
    BY DEF IInv, DoorsShut
  <2>2. pc[q] \notin Holding
    BY DEF IInv, IntentClaimed, Claiming, Holding
  <2>. QED BY <2>1, <2>2
<1>. QED BY <1>1, GateInvariant, PTL

\* Whoever has the database open still owns the token it came in with.
THEOREM TokensKept == GateSpec => []OpenersKeepTokens
<1>1. IInv => OpenersKeepTokens
  BY GateAssumption DEF IInv, TypeOK, TokensOwned, OpenersKeepTokens, Tokened
<1>. QED BY <1>1, GateInvariant, PTL

-----------------------------------------------------------------------------
(* The files *)

\* What a process does with the set between its passing the door and its leaving.
Inside == {"building", "installing", "installed", "connecting", "tidying"} \cup Connected

SetTypes ==
    /\ at \in [Name -> File \cup {NoFile}]
    /\ conn \in [Proc -> File \cup {NoFile}]
    /\ DOMAIN work = Proc

\* Whoever works inside is through the door, and whoever is connected is inside.
ConnectedInside ==
    \A p \in Proc : /\ work[p] \in Inside => pc[p] = "open"
                    /\ conn[p] # NoFile => work[p] \in Connected \cup {"tidying"}

OpenInv == IInv /\ SetTypes /\ ConnectedInside /\ ConnectedToCanonical

-----------------------------------------------------------------------------

\* Whatever a process does with the set, it does with the gate what GateNext allows.
LEMMA GateStep == [Next]_vars => [GateNext]_gateVars
<1>. SUFFICES ASSUME [Next]_vars PROVE [GateNext]_gateVars
  OBVIOUS
<1>1. CASE UNCHANGED vars
  BY <1>1 DEF vars
<1>2. ASSUME NEW p \in Proc, OpenStep(p)
      PROVE  [GateNext]_gateVars
  <2>1. CASE Open(p)
    BY <2>1 DEF Open, GateNext
  <2>2. CASE PassGate(p)
    BY <2>2 DEF PassGate, GateNext
  <2>3. CASE RefuseInventory(p) \/ OpenFails(p)
    BY <2>3 DEF RefuseInventory, OpenFails, giveUp, GateNext
  <2>4. CASE Close(p)
    BY <2>4 DEF Close, GateNext
  <2>5. CASE OpenRefused(p) \/ Inventory(p) \/ BuildCandidate(p) \/ InstallCandidate(p)
    BY <2>5 DEF OpenRefused, Inventory, BuildCandidate, InstallCandidate
  <2>6. CASE Connect(p) \/ Tidy(p) \/ BeginWrite(p) \/ Commit(p)
    BY <2>6 DEF Connect, connect, Tidy, BeginWrite, Commit
  <2>. QED BY <1>2, <2>1, <2>2, <2>3, <2>4, <2>5, <2>6 DEF OpenStep
<1>3. ASSUME NEW p \in Proc, PreserveStep(p)
      PROVE  [GateNext]_gateVars
  <2>1. CASE BeginPreserve(p)
    BY <2>1 DEF BeginPreserve, GateNext
  <2>2. CASE ClearResidue(p)
    BY <2>2 DEF ClearResidue, GateNext
  <2>3. CASE TakeGate(p)
    BY <2>3 DEF TakeGate, HolderStep, GateNext
  <2>4. CASE Resume(p) \/ StartOver(p) \/ Adopt(p) \/ CreateManifest(p) \/ WriteManifest(p)
    BY <2>4 DEF Resume, StartOver, Adopt, CreateManifest, WriteManifest, onDirectory
  <2>5. CASE CreateBlockade(p) \/ WriteBlockade(p) \/ Unblock(p)
    BY <2>5 DEF CreateBlockade, WriteBlockade, Unblock, HolderStep, GateNext
  <2>6. CASE \/ LinkMember(p) \/ RecordInstalled(p) \/ UnlinkMember(p) \/ RecordRemoved(p)
             \/ CompleteManifest(p)
    BY <2>6 DEF LinkMember, RecordInstalled, UnlinkMember, RecordRemoved, CompleteManifest,
        advance, onDirectory
  <2>7. CASE Finish(p)
    BY <2>7 DEF Finish, HolderStep, GateNext
  <2>8. CASE Refuse(p)
    BY <2>8 DEF Refuse, fail
  <2>9. CASE StopFailed(p)
    BY <2>9 DEF StopFailed, HolderStep, GateNext
  <2>. QED
    BY <1>3, <2>1, <2>2, <2>3, <2>4, <2>5, <2>6, <2>7, <2>8, <2>9 DEF PreserveStep
<1>4. ASSUME NEW p \in Proc, Fault(p) \/ Die(p)
      PROVE  [GateNext]_gateVars
  BY <1>4 DEF Fault, fail, Die, GateNext
<1>. QED BY <1>1, <1>2, <1>3, <1>4 DEF Next

\* By the shape of the definitions a step on the files takes a step of the gate or leaves it
\* alone, so that the gate's theorems can be used of OpenRecovery's behaviours.
LEMMA ImplementsGate == Spec => GateSpec
<1>1. Init => GateInit
  BY DEF Init
<1>2. [Next]_vars => [GateNext]_gateVars
  BY GateStep
<1>. QED BY <1>1, <1>2, PTL DEF Spec, GateSpec

-----------------------------------------------------------------------------

\* Nobody is inside at first.
LEMMA OpenInit == Init => OpenInv
<1>. SUFFICES ASSUME Init PROVE OpenInv
  OBVIOUS
<1>1. IInv
  BY InitInvariant DEF Init
<1>2. SetTypes
  <2>1. PICK main \in File \cup {NoFile}, log \in File \cup {NoFile}, sidecar \in {Journal, Wal} :
          at = [[n \in Name |-> NoFile] EXCEPT ![Main] = main, ![sidecar] = log]
    BY DEF Init
  <2>2. at \in [Name -> File \cup {NoFile}]
    BY <2>1
  <2>. QED BY <2>2 DEF Init, SetTypes
<1>3. ConnectedInside /\ ConnectedToCanonical
  BY DEF Init, ConnectedInside, ConnectedToCanonical, Inside, Connected
<1>. QED BY <1>1, <1>2, <1>3 DEF OpenInv

\* Every step of an opening keeps it: the canonical name is installed only where nothing
\* has it, and then nobody is connected.
LEMMA OpeningStep ==
    ASSUME OpenInv, NEW p \in Proc, OpenStep(p)
    PROVE  SetTypes' /\ ConnectedInside' /\ ConnectedToCanonical'
<1>. USE DEF OpenInv, SetTypes, ConnectedInside, ConnectedToCanonical, Inside, Connected, do
<1>1. pc \in [Proc -> {pc[q] : q \in Proc}]
  BY DEF IInv, TypeOK
<1>2. Main # Journal /\ {Main, Journal} \cap Proc = {} /\ NoFile \notin File
  BY SetAssumption
<1>3. CASE Open(p)
  BY <1>1, <1>3 DEF Open, BeginOpen, goto
<1>4. CASE OpenRefused(p)
  BY <1>4 DEF OpenRefused, gateVars
<1>5. CASE PassGate(p)
  BY <1>1, <1>5 DEF PassGate, setVars, ReaderStep, CheckIntent, CreateToken, WriteToken,
      RecheckIntent, Withdraw, goto
<1>6. CASE RefuseInventory(p) \/ OpenFails(p)
  BY <1>1, <1>6 DEF RefuseInventory, OpenFails, giveUp, CloseReader, goto
<1>7. CASE Inventory(p)
  BY <1>7 DEF Inventory, gateVars
<1>8. CASE BuildCandidate(p)
  BY <1>2, <1>8 DEF BuildCandidate, gateVars, Name
<1>9. CASE InstallCandidate(p)
  BY <1>2, <1>9 DEF InstallCandidate, gateVars, Name
<1>10. CASE Connect(p)
  BY <1>2, <1>10 DEF Connect, connect, gateVars, Name
<1>11. CASE Tidy(p)
  BY <1>2, <1>11 DEF Tidy, gateVars, Name
<1>12. CASE BeginWrite(p)
  BY <1>2, <1>12 DEF BeginWrite, gateVars, Name
<1>13. CASE Commit(p)
  BY <1>2, <1>13 DEF Commit, gateVars, Name
<1>14. CASE Close(p)
  BY <1>1, <1>14 DEF Close, CloseReader, goto
<1>. QED BY <1>3, <1>4, <1>5, <1>6, <1>7, <1>8, <1>9, <1>10, <1>11, <1>12, <1>13, <1>14
          DEF OpenStep

\* So does every step of a preservation: a file leaves the canonical name only while its
\* mover holds the gate, and then no door is open.
LEMMA PreservationStep ==
    ASSUME OpenInv, NEW p \in Proc, PreserveStep(p)
    PROVE  SetTypes' /\ ConnectedInside' /\ ConnectedToCanonical'
<1>. USE DEF OpenInv, SetTypes, ConnectedInside, ConnectedToCanonical, Inside, Connected, do
<1>1. pc \in [Proc -> {pc[q] : q \in Proc}]
  BY DEF IInv, TypeOK
<1>2. CASE BeginPreserve(p)
  BY <1>1, <1>2 DEF BeginPreserve, Attest, BeginExclusive, createIntent, mayStart, goto
<1>3. CASE ClearResidue(p)
  BY <1>1, <1>3 DEF ClearResidue, setVars, ClearingStep, QuarantineReader, QuarantineIntent,
      QuarantineBlock, ReclaimIntent, ClaimAttested, createIntent, goto
<1>4. CASE TakeGate(p)
  BY <1>1, <1>4 DEF TakeGate, setVars, WriteIntent, ReclaimToken, Drain, goto
<1>5. ASSUME NEW from, NEW to, NEW g, NEW directory, from \notin Inside, to \notin Inside,
             onDirectory(p, from, to, g, directory)
      PROVE  SetTypes' /\ ConnectedInside' /\ ConnectedToCanonical'
  BY <1>5 DEF onDirectory, gateVars
<1>6. CASE Resume(p) \/ StartOver(p) \/ Adopt(p) \/ CreateManifest(p) \/ WriteManifest(p)
  BY <1>5, <1>6 DEF Resume, StartOver, Adopt, CreateManifest, WriteManifest
<1>7. CASE LinkMember(p) \/ RecordInstalled(p) \/ RecordRemoved(p) \/ CompleteManifest(p)
  BY <1>5, <1>7 DEF LinkMember, RecordInstalled, RecordRemoved, CompleteManifest, advance
<1>8. CASE CreateBlockade(p)
  BY <1>1, <1>8 DEF CreateBlockade, CreateBlock, setVars, goto
<1>9. CASE WriteBlockade(p)
  BY <1>1, <1>9 DEF WriteBlockade, WriteBlock, goto
<1>10. CASE Unblock(p)
  BY <1>10 DEF Unblock, RemoveBlock
<1>11. CASE UnlinkMember(p)
  <2>1. \A q \in Proc : conn[q] = NoFile
    BY <1>11 DEF UnlinkMember, atMember, IInv, DoorsShut, Holding
  <2>. QED BY <1>11, <2>1 DEF UnlinkMember, gateVars
<1>12. CASE Finish(p)
  BY <1>1, <1>12 DEF Finish, Release, goto
<1>13. CASE Refuse(p)
  BY <1>13 DEF Refuse, fail, gateVars, refuses, atMember
<1>14. CASE StopFailed(p)
  BY <1>1, <1>14 DEF StopFailed, Release, Crash, goto
<1>. QED BY <1>2, <1>3, <1>4, <1>6, <1>7, <1>8, <1>9, <1>10, <1>11, <1>12, <1>13, <1>14
          DEF PreserveStep

\* The invariant holds, whoever fails or dies.
LEMMA OpenStepInvariant == OpenInv /\ [Next]_vars => OpenInv'
<1>. SUFFICES ASSUME OpenInv, [Next]_vars PROVE OpenInv'
  OBVIOUS
<1>1. IInv'
  BY GateStep, StepInvariant DEF OpenInv
<1>2. CASE UNCHANGED vars
  BY <1>1, <1>2 DEF vars, gateVars, setVars, OpenInv, SetTypes, ConnectedInside,
      ConnectedToCanonical
<1>3. ASSUME NEW p \in Proc, Fault(p) \/ Die(p)
      PROVE  SetTypes' /\ ConnectedInside' /\ ConnectedToCanonical'
  <2>1. pc \in [Proc -> {pc[q] : q \in Proc}]
    BY DEF OpenInv, IInv, TypeOK
  <2>2. CASE Fault(p)
    BY <2>2 DEF Fault, fail, gateVars, OpenInv, SetTypes, ConnectedInside,
        ConnectedToCanonical, Inside, Connected, IInv, DoorsShut, Holding
  <2>3. CASE Die(p)
    BY <2>1, <2>3 DEF Die, Crash, OpenInv, SetTypes, ConnectedInside, ConnectedToCanonical,
        Inside, Connected
  <2>. QED BY <1>3, <2>2, <2>3
<1>. QED BY <1>1, <1>2, <1>3, OpeningStep, PreservationStep DEF Next, OpenInv

\* However many processes open, install, move and die: who is connected is connected to
\* the file that has the canonical name.
THEOREM ConnectionsCanonical == Spec => []ConnectedToCanonical
<1>1. Init => OpenInv
  BY OpenInit
<1>2. OpenInv /\ [Next]_vars => OpenInv'
  BY OpenStepInvariant
<1>3. OpenInv => ConnectedToCanonical
  BY DEF OpenInv
<1>. QED BY <1>1, <1>2, <1>3, PTL DEF Spec

-----------------------------------------------------------------------------

\* A member of a manifest, and a directory with its manifest.
Member ==
    [ id : File, size : 0..MaxSize, installed : BOOLEAN, sourceRemoved : BOOLEAN ]

Directory ==
    [ state   : {"absent", "empty", "torn", "moving", "complete"},
      members : UNION {[names -> Member] : names \in SUBSET Name},
      target  : [Name -> File \cup {NoFile}] ]

\* SetTypeOK does not say what a member is.
FileTypes == SetTypeOK /\ gens \in [Gen -> Directory]

\* One process writes; a candidate is there when it is installed, and where there is no
\* database yet there is no journal either.
Workers ==
    \A p \in Proc :
        /\ work[p] \in Connected \cup {"tidying"} => conn[p] # NoFile
        /\ work[p] = "writing" =>
              size[conn[p]] < MaxSize /\ \A q \in Proc : work[q] = "writing" => q = p
        /\ work[p] = "building" => at[p] = NoFile
        /\ work[p] = "installing" => at[p] # NoFile
        /\ work[p] \in {"building", "installing"} /\ at[Main] = NoFile => at[Journal] = NoFile

\* The members of a directory are on their way into it.
Aside(g) ==
    \A n \in DOMAIN gens[g].members :
        LET m == gens[g].members[n]
        IN  /\ size[m.id] = m.size
            /\ m.sourceRemoved => m.installed /\ at[n] = NoFile
            /\ m.installed => gens[g].target[n] = m.id /\ at[n] \in {m.id, NoFile}
            /\ ~m.installed => at[n] = m.id /\ gens[g].target[n] \in {m.id, NoFile}

\* Where a process stands that moves the set.
Mover(p) ==
    /\ work[p] \in Moving => pc[p] \in Holding /\ gen[p] # NoGen
    /\ work[p] = "failed" => pc[p] \in Holding \cup {"draining"}
    /\ work[p] = "failed" /\ p \notin faulted => pc[p] = "drained"
    /\ pc[p] = "blocking" => work[p] \in {"blockade", "failed"}
    /\ work[p] = "manifest" => gens[gen[p]].state = "empty"
    /\ work[p] = "describing" => gens[gen[p]].state = "torn"
    /\ work[p] = "blockade" => gens[gen[p]].state = "moving" /\ Aside(gen[p])
    /\ work[p] = "moving" =>
          block = "valid" /\ blockGen = gen[p] /\ gens[gen[p]].state = "moving"
    /\ work[p] = "unblocking" =>
          block = "valid" /\ blockGen = gen[p] /\ gens[gen[p]].state = "complete"

Movers == \A p \in Proc : Mover(p)

\* A directory that a preservation has still to complete.
Unfinished(g) == gens[g].state \in {"empty", "torn", "moving"}

\* With a blockade nobody is inside; a torn one is of the claimant that is writing it or of a
\* dead one, whose intent is still there; a valid one names the only unfinished directory.
Blockades ==
    /\ block # "absent" => \A p \in Proc : work[p] \notin Inside
    /\ block = "torn" => intent = "valid" /\ \A p \in Proc : pc[p] \in Claiming => pc[p] = "blocking"
    /\ \A p \in Proc : pc[p] = "blocking" => block = "torn"
    /\ block = "valid" =>
          /\ gens[blockGen].state \in {"moving", "complete"}
          /\ gens[blockGen].state = "moving" => Aside(blockGen)
          /\ \A g \in Gen : Unfinished(g) => g = blockGen

\* Whoever installs a database where there was none.
FirstRun == {"building", "installing", "installed", "tidying"}

\* What the manifest of g does not name has not been touched, but that a write may have left
\* a journal since; until there is a blockade, all it names but a journal is in its place.
Kept(g) ==
    /\ \A n \in Name \ DOMAIN gens[g].members :
          /\ gens[g].target[n] = NoFile
          /\ at[n] # NoFile =>
                n = Journal /\ \A k \in DOMAIN gens[g].members : gens[g].members[k].id # at[n]
    /\ block # "valid" =>
          \A n \in DOMAIN gens[g].members \ {Journal} : at[n] = gens[g].members[n].id

\* One directory at a time is unfinished, and no first run begins beside it; a complete one
\* has all its members, and none of them has another name.
Directories ==
    /\ \A g, h \in Gen : Unfinished(g) /\ Unfinished(h) => g = h
    /\ (\E g \in Gen : Unfinished(g)) => \A p \in Proc : work[p] \notin FirstRun
    /\ \A g \in Gen :
          /\ gens[g].state \in {"absent", "empty", "torn"} => \A n \in Name : gens[g].target[n] = NoFile
          /\ gens[g].state = "moving" => Kept(g)
          /\ gens[g].state = "complete" =>
                /\ preserved(g)
                /\ \A n, k \in Name : gens[g].target[n] # NoFile => at[k] # gens[g].target[n]

\* A journal is of the main file that is there.
Rollback == at[Journal] # NoFile /\ at[Main] # NoFile => base[at[Journal]] = at[Main]

\* The inductive invariant, on top of the gate's.
FilesInv ==
    /\ FileTypes /\ Workers /\ Movers /\ Blockades /\ Directories /\ Rollback
    /\ NothingLost /\ HalfMovedIsBlocked /\ OnlyDeadEndsRefuse

-----------------------------------------------------------------------------

\* The steps of other processes, and what they have, stay as they are.
OthersRest(p) ==
    \A q \in Proc \ {p} :
        work'[q] = work[q] /\ pc'[q] = pc[q] /\ conn'[q] = conn[q] /\ gen'[q] = gen[q]

\* What the types say of the functions, in the form that the proofs need.
LEMMA WorkTypes ==
    ASSUME OpenInv, FileTypes
    PROVE  /\ pc \in [Proc -> {pc[q] : q \in Proc}]
           /\ work \in [Proc -> {work[q] : q \in Proc}]
           /\ conn \in [Proc -> File \cup {NoFile}]
           /\ gen \in [Proc -> Gen \cup {NoGen}]
           /\ at \in [Name -> File \cup {NoFile}]
           /\ size \in [File -> 0..MaxSize] /\ base \in [File -> File \cup {NoFile}]
           /\ gens \in [Gen -> Directory]
BY DEF OpenInv, IInv, TypeOK, SetTypes, FileTypes, SetTypeOK

\* A step of an opening leaves the recovery directories alone.  Either it leaves the
\* files alone too, and the process is at the gate, or the process is through the door.
AtGate(p) ==
    /\ UNCHANGED <<at, size, base, work, conn, owed>>
    /\ pc[p] \notin Claiming /\ pc'[p] \notin Claiming

ThroughDoor(p) ==
    /\ pc[p] = "open" /\ pc'[p] \in {"open", "closed"}
    /\ work[p] \in Inside \cup {"none"} /\ work'[p] \in Inside \cup {"none"}
    /\ work[p] = "none" =>
          /\ UNCHANGED <<at, size, base, owed>>
          /\ work'[p] # "none" => ~preflight_refuses
    /\ work'[p] \in FirstRun =>
          work[p] \in FirstRun \/ (work[p] = "none" /\ at[Main] = NoFile)

LEMMA OpeningEffect ==
    ASSUME OpenInv, FileTypes, NEW p \in Proc, OpenStep(p)
    PROVE  /\ UNCHANGED <<gens, block, blockGen, gen, intent, faulted, faults>>
           /\ OthersRest(p)
           /\ AtGate(p) \/ ThroughDoor(p)
<1>. USE DEF OthersRest, Inside, Connected, do, Claiming
<1>1. /\ pc \in [Proc -> {pc[q] : q \in Proc}]
      /\ work \in [Proc -> {work[q] : q \in Proc}]
      /\ conn \in [Proc -> File \cup {NoFile}]
  BY WorkTypes
<1>2. work[p] \in Inside => pc[p] = "open"
  BY DEF OpenInv, ConnectedInside
<1>3. CASE Open(p)
  BY <1>1, <1>3 DEF Open, BeginOpen, goto, mayStart, AtGate
<1>4. CASE OpenRefused(p)
  BY <1>1, <1>4 DEF OpenRefused, gateVars, mayStart, AtGate
<1>5. CASE PassGate(p)
  BY <1>1, <1>5 DEF PassGate, setVars, ReaderStep, CheckIntent, CreateToken, WriteToken,
      RecheckIntent, Withdraw, goto, AtGate
<1>6. CASE RefuseInventory(p) \/ OpenFails(p)
  BY <1>1, <1>2, <1>6 DEF RefuseInventory, OpenFails, giveUp, CloseReader, goto, ThroughDoor, FirstRun
<1>7. CASE Inventory(p)
  BY <1>1, <1>7 DEF Inventory, gateVars, ThroughDoor, FirstRun
<1>8. CASE BuildCandidate(p) \/ InstallCandidate(p)
  BY <1>1, <1>2, <1>8 DEF BuildCandidate, InstallCandidate, gateVars, ThroughDoor, FirstRun
<1>9. CASE Connect(p)
  BY <1>1, <1>2, <1>9 DEF Connect, connect, gateVars, ThroughDoor, FirstRun
<1>10. CASE Tidy(p) \/ BeginWrite(p) \/ Commit(p)
  BY <1>1, <1>2, <1>10 DEF Tidy, BeginWrite, Commit, gateVars, ThroughDoor, FirstRun
<1>11. CASE Close(p)
  BY <1>1, <1>2, <1>11 DEF Close, CloseReader, goto, ThroughDoor, FirstRun
<1>. QED BY <1>3, <1>4, <1>5, <1>6, <1>7, <1>8, <1>9, <1>10, <1>11 DEF OpenStep

\* A step of a preservation leaves what others do alone, and files change their
\* names only while it holds.
LEMMA PreservationEffect ==
    ASSUME OpenInv, FileTypes, NEW p \in Proc, PreserveStep(p)
    PROVE  /\ UNCHANGED <<size, base, conn, faults>>
           /\ OthersRest(p)
           /\ pc[p] \in Holding \/ UNCHANGED <<at, gens, owed, blockGen>>
           /\ pc[p] \in Holding \/ UNCHANGED block \/ pc[p] = "clearing"
           /\ work[p] \notin Inside /\ work'[p] \notin Inside
<1>. USE DEF OthersRest, Inside, Connected, do, Holding, ConnectedInside
<1>1. /\ pc \in [Proc -> {pc[q] : q \in Proc}]
      /\ work \in [Proc -> {work[q] : q \in Proc}]
      /\ gen \in [Proc -> Gen \cup {NoGen}]
      /\ ConnectedInside
  BY WorkTypes DEF OpenInv
<1>2. CASE BeginPreserve(p)
  BY <1>1, <1>2 DEF BeginPreserve, Attest, BeginExclusive, createIntent, mayStart, goto
<1>3. CASE ClearResidue(p)
  BY <1>1, <1>3 DEF ClearResidue, setVars, ClearingStep, QuarantineReader, QuarantineIntent,
      QuarantineBlock, ReclaimIntent, ClaimAttested, createIntent, goto
<1>4. CASE TakeGate(p)
  BY <1>1, <1>4 DEF TakeGate, setVars, WriteIntent, ReclaimToken, Drain, goto
<1>5. ASSUME NEW from, NEW to, NEW g, NEW directory, to \notin Inside,
             onDirectory(p, from, to, g, directory)
      PROVE  /\ UNCHANGED <<size, base, conn, faults>> /\ OthersRest(p)
             /\ pc[p] \in Holding /\ work[p] \notin Inside /\ work'[p] \notin Inside
  BY <1>1, <1>5 DEF onDirectory, gateVars
<1>6. CASE Resume(p) \/ StartOver(p) \/ Adopt(p) \/ CreateManifest(p) \/ WriteManifest(p)
  BY <1>5, <1>6 DEF Resume, StartOver, Adopt, CreateManifest, WriteManifest
<1>7. CASE LinkMember(p) \/ RecordInstalled(p) \/ RecordRemoved(p) \/ CompleteManifest(p)
  BY <1>5, <1>7 DEF LinkMember, RecordInstalled, RecordRemoved, CompleteManifest, advance
<1>8. CASE CreateBlockade(p) \/ WriteBlockade(p) \/ Unblock(p)
  BY <1>1, <1>8 DEF CreateBlockade, CreateBlock, WriteBlockade, WriteBlock, Unblock, RemoveBlock,
      setVars, goto
<1>9. CASE UnlinkMember(p)
  BY <1>1, <1>9 DEF UnlinkMember, atMember, gateVars
<1>10. CASE Finish(p)
  BY <1>1, <1>10 DEF Finish, Release, goto
<1>11. CASE Refuse(p)
  BY <1>1, <1>11 DEF Refuse, fail, gateVars, refuses, atMember
<1>12. CASE StopFailed(p)
  BY <1>1, <1>12 DEF StopFailed, Release, Crash, goto
<1>. QED BY <1>2, <1>3, <1>4, <1>6, <1>7, <1>8, <1>9, <1>10, <1>11, <1>12 DEF PreserveStep

-----------------------------------------------------------------------------

\* Directories and their records are made of what is declared.
LEMMA NoDirectoryType == [NoDirectory EXCEPT !.state = "empty"] \in Directory /\ NoDirectory \in Directory
<1>1. <<>> \in [{} -> Member]
  OBVIOUS
<1>2. <<>> \in UNION {[names -> Member] : names \in SUBSET Name}
  BY <1>1
<1>. QED BY <1>2 DEF NoDirectory, Directory

LEMMA DirectoryFields ==
    ASSUME NEW g \in Directory
    PROVE  /\ g.state \in {"absent", "empty", "torn", "moving", "complete"}
           /\ DOMAIN g.members \in SUBSET Name
           /\ g.members \in [DOMAIN g.members -> Member]
           /\ g.target \in [Name -> File \cup {NoFile}]
BY DEF Directory

\* A mover is at a member that is still to be moved.
LEMMA NextMember ==
    ASSUME FileTypes, NEW g \in Gen, left(g) # {}
    PROVE  current(g) \in left(g) /\ current(g) \in DOMAIN gens[g].members /\ current(g) \in Name
<1>1. gens[g] \in Directory
  BY WorkTypes DEF FileTypes
<1>2. left(g) \subseteq Name /\ left(g) \subseteq DOMAIN gens[g].members
  BY <1>1, DirectoryFields DEF left
<1>3. \E n \in left(g) : \A k \in left(g) : rank(n) <= rank(k)
  <2>1. \A n \in Name : rank(n) \in {0, 1, 2, 3}
    BY DEF rank
  <2>2. PICK x \in left(g) : TRUE
    OBVIOUS
  <2>3. CASE \E n \in left(g) : rank(n) = 0
    BY <1>2, <2>1, <2>3
  <2>4. CASE (\A n \in left(g) : rank(n) # 0) /\ \E n \in left(g) : rank(n) = 1
    BY <1>2, <2>1, <2>4
  <2>5. CASE (\A n \in left(g) : rank(n) \notin {0, 1}) /\ \E n \in left(g) : rank(n) = 2
    BY <1>2, <2>1, <2>5
  <2>6. CASE \A n \in left(g) : rank(n) \notin {0, 1, 2}
    BY <1>2, <2>1, <2>2, <2>6
  <2>. QED BY <2>3, <2>4, <2>5, <2>6
<1>4. current(g) \in left(g)
  BY <1>3 DEF current
<1>. QED BY <1>2, <1>4

\* Files, names and directories keep their types when a process opens.
LEMMA OpeningTypes ==
    ASSUME OpenInv, FileTypes, Workers, NEW p \in Proc, OpenStep(p)
    PROVE  FileTypes'
<1>. USE DEF FileTypes, SetTypeOK, do, Name, Connected, Moving
<1>0. /\ SetTypeOK /\ ConnectedInside /\ Main \in Name /\ Journal \in Name
      /\ conn[p] \in File \cup {NoFile}
  BY DEF OpenInv
<1>1. CASE Open(p) \/ OpenRefused(p) \/ PassGate(p)
  BY <1>0, <1>1 DEF Open, OpenRefused, PassGate, setVars, BeginOpen, ReaderStep, CheckIntent, CreateToken,
      WriteToken, RecheckIntent, Withdraw, gateVars
<1>2. CASE RefuseInventory(p) \/ OpenFails(p)
  BY <1>0, <1>2 DEF RefuseInventory, OpenFails, giveUp, CloseReader
<1>3. CASE Inventory(p)
  BY <1>0, <1>3 DEF Inventory, gateVars
<1>4. CASE BuildCandidate(p)
  BY <1>0, <1>4, SetAssumption DEF BuildCandidate, gateVars
<1>5. CASE InstallCandidate(p)
  <2>1. work[p] = "installing" /\ at[p] \in File
    BY <1>5 DEF InstallCandidate, Workers
  <2>2. owed' \subseteq Name \X File /\ at' \in [Name -> File \cup {NoFile}]
    BY <1>0, <1>5, <2>1 DEF InstallCandidate
  <2>. QED BY <1>0, <1>5, <2>2 DEF InstallCandidate, gateVars
<1>6. CASE Connect(p)
  <2>1. PICK from \in {"connecting", "installed"}, to \in {"using", "tidying"} : connect(p, from, to)
    BY <1>6 DEF Connect
  <2>2. owed' \subseteq Name \X File
    BY <1>0, <2>1 DEF connect
  <2>3. at' \in [Name -> File \cup {NoFile}] /\ conn' \in [Proc -> File \cup {NoFile}]
    BY <1>0, <2>1 DEF connect
  <2>. QED BY <1>0, <2>1, <2>2, <2>3 DEF connect, gateVars
<1>7. CASE Tidy(p)
  BY <1>0, <1>7 DEF Tidy, gateVars
<1>8. CASE BeginWrite(p)
  BY <1>0, <1>8, SetAssumption DEF BeginWrite, gateVars
<1>9. CASE Commit(p)
  <2>1. conn[p] \in File /\ size[conn[p]] \in 0..MaxSize /\ size[conn[p]] < MaxSize
    BY <1>0, <1>9 DEF Commit, Workers
  <2>2. size[conn[p]] + 1 \in 0..MaxSize
    BY <2>1, SetAssumption
  <2>. QED BY <1>0, <1>9, <2>1, <2>2 DEF Commit, gateVars
<1>10. CASE Close(p)
  BY <1>0, <1>10 DEF Close, CloseReader
<1>. QED BY <1>1, <1>2, <1>3, <1>4, <1>5, <1>6, <1>7, <1>8, <1>9, <1>10 DEF OpenStep

\* And when a process moves the set.
LEMMA DirectoryStepTypes ==
    ASSUME FileTypes, NEW p \in Proc, NEW from, NEW to \in Moving, NEW g \in Gen, NEW directory \in Directory,
           onDirectory(p, from, to, g, directory)
    PROVE  FileTypes'
<1>1. gens' \in [Gen -> Directory]
  BY DEF onDirectory, FileTypes
<1>2. \A h \in Gen : /\ gens'[h].state \in {"absent", "empty", "torn", "moving", "complete"}
                     /\ DOMAIN gens'[h].members \subseteq Name
                     /\ gens'[h].target \in [Name -> File \cup {NoFile}]
  BY <1>1, DirectoryFields
<1>3. work' \in [Proc -> {"none", "building", "installing", "installed", "connecting", "tidying", "failed"}
                         \cup Connected \cup Moving]
  BY DEF onDirectory, FileTypes, SetTypeOK, do
<1>4. gen' \in [Proc -> Gen \cup {NoGen}]
  BY DEF onDirectory, FileTypes, SetTypeOK
<1>. QED BY <1>1, <1>2, <1>3, <1>4 DEF onDirectory, FileTypes, SetTypeOK, gateVars

\* A mover works on a directory.
LEMMA GenOf ==
    ASSUME FileTypes, Movers, NEW p \in Proc, work[p] \in Moving
    PROVE  gen[p] \in Gen /\ gens[gen[p]] \in Directory
BY DEF FileTypes, SetTypeOK, Movers, Mover

LEMMA StateType ==
    ASSUME NEW d \in Directory, NEW state \in {"absent", "empty", "torn", "moving", "complete"}
    PROVE  [d EXCEPT !.state = state] \in Directory
BY DEF Directory

LEMMA InventoryType ==
    ASSUME FileTypes, SetTypes, NEW d \in Directory, NEW members,
           members = [n \in {m \in Name : at[m] # NoFile} |->
                        [id |-> at[n], size |-> size[at[n]], installed |-> FALSE, sourceRemoved |-> FALSE]]
    PROVE  [d EXCEPT !.state = "moving", !.members = members] \in Directory
<1>1. members \in [{m \in Name : at[m] # NoFile} -> Member]
  BY DEF FileTypes, SetTypeOK, Member
<1>2. members \in UNION {[names -> Member] : names \in SUBSET Name}
  BY <1>1
<1>. QED BY <1>2 DEF Directory

\* The member that a mover is at is one of its directory's.
LEMMA MemberTypes ==
    ASSUME FileTypes, Movers, NEW p \in Proc, atMember(p)
    PROVE  /\ current(gen[p]) \in DOMAIN gens[gen[p]].members /\ current(gen[p]) \in Name
           /\ ~member(p).sourceRemoved
           /\ gen[p] \in Gen /\ gens[gen[p]] \in Directory
           /\ member(p) \in Member
<1>1. gen[p] \in Gen /\ gens[gen[p]] \in Directory
  BY GenOf DEF atMember, Moving
<1>2. current(gen[p]) \in left(gen[p]) /\ current(gen[p]) \in DOMAIN gens[gen[p]].members /\ current(gen[p]) \in Name
  BY <1>1, NextMember DEF atMember
<1>. QED BY <1>1, <1>2, DirectoryFields DEF left, member

LEMMA RecordTypes ==
    ASSUME NEW d \in Directory, NEW n \in DOMAIN d.members
    PROVE  /\ [d EXCEPT !.members[n].installed = TRUE] \in Directory
           /\ [d EXCEPT !.members[n].sourceRemoved = TRUE] \in Directory
<1>1. PICK names \in SUBSET Name : d.members \in [names -> Member]
  BY DEF Directory
<1>2. d.members[n] \in Member
  BY <1>1
<1>3. /\ [d.members EXCEPT ![n].installed = TRUE] \in [names -> Member]
      /\ [d.members EXCEPT ![n].sourceRemoved = TRUE] \in [names -> Member]
  BY <1>1, <1>2 DEF Member
<1>. QED BY <1>1, <1>3 DEF Directory

\* A preservation keeps the types.
LEMMA PreservationTypes ==
    ASSUME OpenInv, FileTypes, Movers, NEW p \in Proc, PreserveStep(p)
    PROVE  FileTypes'
<1>. USE DEF do
<1>0. /\ FileTypes /\ SetTypes
  BY DEF OpenInv
<1>1. CASE BeginPreserve(p)
  BY <1>1 DEF BeginPreserve, Attest, BeginExclusive, createIntent, FileTypes, SetTypeOK
<1>2. CASE ClearResidue(p)
  BY <1>2, SetAssumption DEF ClearResidue, setVars, ClearingStep, QuarantineReader, QuarantineIntent,
      QuarantineBlock, ReclaimIntent, ClaimAttested, createIntent, FileTypes, SetTypeOK
<1>3. CASE TakeGate(p)
  BY <1>3 DEF TakeGate, setVars, WriteIntent, ReclaimToken, Drain, FileTypes, SetTypeOK
<1>4. CASE Resume(p)
  <2>1. blockGen \in Gen /\ gens[blockGen] \in Directory
    BY <1>4 DEF Resume, canResume, FileTypes, SetTypeOK
  <2>. QED BY <1>4, <2>1, DirectoryStepTypes DEF Resume, Moving
<1>5. CASE StartOver(p)
  BY <1>5, NoDirectoryType, DirectoryStepTypes DEF StartOver, Moving
<1>6. CASE Adopt(p)
  <2>1. \A g \in Gen : gens[g] \in Directory
    BY DEF FileTypes
  <2>. QED BY <1>6, <2>1, DirectoryStepTypes DEF Adopt, Moving
<1>7. CASE CreateManifest(p)
  BY <1>7, GenOf, StateType, DirectoryStepTypes DEF CreateManifest, onDirectory, Moving
<1>8. CASE WriteManifest(p)
  BY <1>0, <1>8, GenOf, InventoryType, DirectoryStepTypes DEF WriteManifest, onDirectory, Moving
<1>9. CASE CreateBlockade(p)
  BY <1>9 DEF CreateBlockade, CreateBlock, setVars, FileTypes, SetTypeOK
<1>10. CASE WriteBlockade(p)
  <2>1. gen[p] \in Gen
    BY <1>10, GenOf DEF WriteBlockade, Moving
  <2>. QED BY <1>10, <2>1, SetAssumption DEF WriteBlockade, WriteBlock, FileTypes, SetTypeOK, Moving
<1>11. CASE LinkMember(p)
  <2>1. /\ gen[p] \in Gen /\ gens[gen[p]] \in Directory /\ current(gen[p]) \in Name
        /\ source(p) \in File \cup {NoFile}
    BY <1>0, <1>11, MemberTypes DEF LinkMember, source, SetTypes
  <2>2. [gens[gen[p]] EXCEPT !.target[current(gen[p])] = source(p)] \in Directory
    BY <2>1 DEF Directory
  <2>. QED BY <1>11, <2>1, <2>2, DirectoryStepTypes DEF LinkMember, advance, Moving
<1>12. CASE RecordInstalled(p) \/ RecordRemoved(p)
  <2>1. /\ gen[p] \in Gen /\ gens[gen[p]] \in Directory
        /\ current(gen[p]) \in DOMAIN gens[gen[p]].members
    BY <1>12, MemberTypes DEF RecordInstalled, RecordRemoved
  <2>. QED BY <1>12, <2>1, RecordTypes, DirectoryStepTypes DEF RecordInstalled, RecordRemoved, advance, Moving
<1>13. CASE UnlinkMember(p)
  <2>1. current(gen[p]) \in Name
    BY <1>13, MemberTypes DEF UnlinkMember
  <2>. QED BY <1>13, <2>1 DEF UnlinkMember, gateVars, FileTypes, SetTypeOK
<1>14. CASE CompleteManifest(p)
  BY <1>14, GenOf, StateType, DirectoryStepTypes DEF CompleteManifest, Moving
<1>15. CASE Unblock(p)
  BY <1>15, SetAssumption DEF Unblock, RemoveBlock, FileTypes, SetTypeOK, Moving
<1>16. CASE Finish(p)
  BY <1>16 DEF Finish, Release, FileTypes, SetTypeOK
<1>17. CASE Refuse(p)
  BY <1>17 DEF Refuse, fail, gateVars, FileTypes, SetTypeOK
<1>18. CASE StopFailed(p)
  BY <1>18 DEF StopFailed, Release, Crash, FileTypes, SetTypeOK
<1>. QED BY <1>1, <1>2, <1>3, <1>4, <1>5, <1>6, <1>7, <1>8, <1>9, <1>10, <1>11, <1>12, <1>13, <1>14,
            <1>15, <1>16, <1>17, <1>18 DEF PreserveStep

-----------------------------------------------------------------------------

\* What an opening does to the names and sizes of the files.
FirstRunStep(p) ==
    /\ work[p] \in FirstRun
    /\ \/ /\ at[p] = NoFile
          /\ \E f \in File : unused(f) /\ at' = [at EXCEPT ![p] = f] /\ size' = [size EXCEPT ![f] = 0]
       \/ at' = [at EXCEPT ![Main] = at[p]] /\ size' = size
       \/ at' = [at EXCEPT ![p] = NoFile] /\ size' = size

JournalStep(p) ==
    /\ work[p] \in Inside
    /\ \/ at' = [at EXCEPT ![Journal] = NoFile] /\ size' = size
       \/ \E f \in File : unused(f) /\ at' = [at EXCEPT ![Journal] = f] /\ size' = [size EXCEPT ![f] = 0]
       \/ /\ at' = [at EXCEPT ![Journal] = NoFile] /\ at[Main] \in File
          /\ size' = [size EXCEPT ![at[Main]] = size'[at[Main]]]

\* Which files an opening can touch: its candidate's and the main one, or the journal.
LEMMA OpeningFiles ==
    ASSUME OpenInv, FileTypes, Workers, NEW p \in Proc, OpenStep(p)
    PROVE  UNCHANGED <<at, size>> \/ FirstRunStep(p) \/ JournalStep(p)
<1>. USE DEF do, Inside, Connected, FirstRun
<1>1. CASE Open(p) \/ OpenRefused(p) \/ PassGate(p)
  BY <1>1 DEF Open, OpenRefused, PassGate, setVars
<1>2. CASE RefuseInventory(p) \/ OpenFails(p)
  BY <1>2 DEF RefuseInventory, OpenFails, giveUp
<1>3. CASE Inventory(p) \/ Close(p)
  BY <1>3 DEF Inventory, Close
<1>4. CASE BuildCandidate(p)
  BY <1>4 DEF BuildCandidate, FirstRunStep, Workers
<1>5. CASE InstallCandidate(p)
  BY <1>5 DEF InstallCandidate, FirstRunStep
<1>6. CASE Connect(p)
  BY <1>6 DEF Connect, connect, JournalStep
<1>7. CASE Tidy(p)
  BY <1>7 DEF Tidy, FirstRunStep
<1>8. CASE BeginWrite(p)
  BY <1>8 DEF BeginWrite, JournalStep
<1>9. CASE Commit(p)
  <2>1. work[p] = "writing" /\ conn[p] \in File /\ conn[p] = at[Main] /\ size \in [File -> 0..MaxSize]
    BY <1>9 DEF Commit, Workers, FileTypes, SetTypeOK, OpenInv, ConnectedToCanonical
  <2>2. /\ at' = [at EXCEPT ![Journal] = NoFile]
        /\ size' = [size EXCEPT ![at[Main]] = size'[at[Main]]]
    BY <1>9, <2>1 DEF Commit
  <2>. QED BY <2>1, <2>2 DEF JournalStep
<1>. QED BY <1>1, <1>2, <1>3, <1>4, <1>5, <1>6, <1>7, <1>8, <1>9 DEF OpenStep

\* An opening keeps what is known of those inside.
LEMMA OpeningWorkers ==
    ASSUME OpenInv, FileTypes, Workers, NEW p \in Proc, OpenStep(p)
    PROVE  Workers'
<1>. USE DEF do, Connected, Workers
<1>0. /\ work \in [Proc -> {work[q] : q \in Proc}]
      /\ conn \in [Proc -> File \cup {NoFile}] /\ at \in [Name -> File \cup {NoFile}]
      /\ size \in [File -> 0..MaxSize]
      /\ Main \in Name /\ Journal \in Name /\ Proc \subseteq Name /\ Main # Journal
      /\ Main \notin Proc /\ Journal \notin Proc /\ NoFile \notin File
      /\ \A q \in Proc : conn[q] # NoFile => conn[q] = at[Main]
  BY WorkTypes, SetAssumption DEF Name, OpenInv, ConnectedToCanonical
<1>1. CASE Open(p) \/ OpenRefused(p) \/ PassGate(p)
  BY <1>1 DEF Open, OpenRefused, PassGate, setVars
<1>2. CASE RefuseInventory(p) \/ OpenFails(p)
  BY <1>0, <1>2 DEF RefuseInventory, OpenFails, giveUp
<1>3. CASE Inventory(p)
  <2>1. at[Main] = NoFile => at[Journal] = NoFile /\ at[p] = NoFile
    BY <1>0, <1>3 DEF Inventory, preflight_refuses, has_absence_evidence
  <2>. QED BY <1>0, <1>3, <2>1 DEF Inventory
<1>4. CASE BuildCandidate(p)
  BY <1>0, <1>4 DEF BuildCandidate, unused
<1>5. CASE InstallCandidate(p)
  BY <1>0, <1>5 DEF InstallCandidate
<1>6. CASE Connect(p)
  <2>1. PICK from \in {"connecting", "installed"}, to \in {"using", "tidying"} : connect(p, from, to)
    BY <1>6 DEF Connect
  <2>. QED BY <1>0, <2>1 DEF connect
<1>7. CASE Tidy(p)
  BY <1>0, <1>7 DEF Tidy
<1>8. CASE BeginWrite(p)
  <2>1. conn[p] # NoFile /\ at[Main] # NoFile
    BY <1>0, <1>8 DEF BeginWrite
  <2>. QED BY <1>0, <1>8, <2>1 DEF BeginWrite, idle, unused
<1>9. CASE Commit(p)
  BY <1>0, <1>9 DEF Commit
<1>10. CASE Close(p)
  BY <1>0, <1>10 DEF Close
<1>. QED BY <1>1, <1>2, <1>3, <1>4, <1>5, <1>6, <1>7, <1>8, <1>9, <1>10 DEF OpenStep

\* A directory whose files stay is as far as it was.
LEMMA AsideSame ==
    ASSUME NEW g, gens'[g] = gens[g], UNCHANGED <<at, size>>
    PROVE  Aside(g)' = Aside(g)
BY DEF Aside

\* Nobody opens who could disturb a mover: there is none, or there is a blockade.
LEMMA OpeningMovers ==
    ASSUME OpenInv, FileTypes, Movers, Blockades, NEW p \in Proc, OpenStep(p)
    PROVE  Movers' /\ Blockades'
<1>1. /\ UNCHANGED <<gens, block, blockGen, gen, intent, faulted, faults>>
      /\ OthersRest(p)
      /\ AtGate(p) \/ ThroughDoor(p)
  BY OpeningEffect
<1>2. \A q, r \in Proc : pc[q] \in Holding => pc[r] # "open"
  BY DEF OpenInv, IInv, DoorsShut
<1>3. \A q \in Proc : work[q] \in Inside => pc[q] = "open"
  BY DEF OpenInv, ConnectedInside
<1>4. CASE AtGate(p)
  <2>1. UNCHANGED <<at, size, work>> /\ pc[p] \notin Claiming /\ pc'[p] \notin Claiming
    BY <1>4 DEF AtGate
  <2>2. \A g : Aside(g)' = Aside(g)
    BY <1>1, <2>1, AsideSame
  <2>3. \A q \in Proc : pc'[q] = pc[q] \/ (q = p /\ pc[q] \notin Claiming /\ pc'[q] \notin Claiming)
    BY <1>1, <2>1 DEF OthersRest
  <2>4. Movers'
    BY <1>1, <2>1, <2>2, <2>3 DEF Movers, Mover, Claiming, Holding
  <2>5. Blockades'
    BY <1>1, <2>1, <2>2, <2>3 DEF Blockades, Claiming, Unfinished
  <2>. QED BY <2>4, <2>5
<1>5. CASE ThroughDoor(p)
  <2>1. /\ \A q \in Proc : pc[q] \notin Holding
        /\ pc'[p] \notin Claiming /\ pc[p] \notin Claiming
        /\ work'[p] \in Inside \cup {"none"}
        /\ block # "absent" => work'[p] = "none" /\ UNCHANGED <<at, size>>
    BY <1>2, <1>5 DEF ThroughDoor, Claiming, Blockades, preflight_refuses
  <2>2. \A q \in Proc : q = p \/ (work'[q] = work[q] /\ pc'[q] = pc[q])
    BY <1>1 DEF OthersRest
  <2>3. \A q \in Proc : work'[q] \notin Moving
    BY <2>1, <2>2 DEF Movers, Mover, Inside, Connected, Moving
  <2>4. Movers'
    BY <1>1, <2>1, <2>2, <2>3 DEF Movers, Mover, Claiming, Holding, Moving, Inside, Connected
  <2>5. block # "absent" => Aside(blockGen)' = Aside(blockGen)
    BY <1>1, <2>1, AsideSame
  <2>6. Blockades'
    BY <1>1, <2>1, <2>2, <2>5 DEF Blockades, Claiming, Unfinished, Inside, Connected
  <2>. QED BY <2>4, <2>6
<1>. QED BY <1>1, <1>4, <1>5

\* A first run begins only where no directory is unfinished, and a write touches the journal
\* alone, which an orphaned manifest may lack.
LEMMA OpeningDirectories ==
    ASSUME OpenInv, FileTypes, Workers, Blockades, Directories, NEW p \in Proc, OpenStep(p)
    PROVE  Directories'
<1>1. /\ UNCHANGED <<gens, block, blockGen>> /\ OthersRest(p)
      /\ AtGate(p) \/ ThroughDoor(p)
  BY OpeningEffect
<1>2. UNCHANGED <<at, size>> \/ FirstRunStep(p) \/ JournalStep(p)
  BY OpeningFiles
<1>3. /\ at \in [Name -> File \cup {NoFile}] /\ size \in [File -> 0..MaxSize]
      /\ Main \in Name /\ Journal \in Name /\ p \in Name /\ NoFile \notin File
      /\ gens \in [Gen -> Directory]
  BY WorkTypes, SetAssumption DEF Name
<1>4. ASSUME NEW g \in Gen, Unfinished(g) PROVE \A q \in Proc : work'[q] \notin FirstRun
  <2>1. \A q \in Proc : work[q] \notin FirstRun
    BY <1>4 DEF Directories
  <2>2. preflight_refuses \/ at[Main] # NoFile
    BY <1>4 DEF Unfinished, preflight_refuses, has_absence_evidence, incomplete, preserved
  <2>3. work'[p] \notin FirstRun
    BY <1>1, <2>1, <2>2 DEF AtGate, ThroughDoor, FirstRun
  <2>. QED BY <1>1, <2>1, <2>3 DEF OthersRest
<1>5. ASSUME NEW g \in Gen, gens[g].state = "moving" PROVE Kept(g)'
  <2>1. Kept(g) /\ work[p] \notin FirstRun
    BY <1>5 DEF Directories, Unfinished
  <2>2. CASE UNCHANGED <<at, size>>
    BY <1>1, <2>1, <2>2 DEF Kept
  <2>3. CASE JournalStep(p)
    <3>1. block # "valid"
      BY <2>3 DEF JournalStep, Blockades
    <3>2. \A n \in Name \ {Journal} : at'[n] = at[n]
      BY <1>3, <2>3 DEF JournalStep
    <3>3. at'[Journal] = NoFile \/ unused(at'[Journal])
      BY <1>3, <2>3 DEF JournalStep
    <3>4. Journal \notin DOMAIN gens[g].members =>
             at'[Journal] = NoFile \/ \A k \in DOMAIN gens[g].members : gens[g].members[k].id # at'[Journal]
      <4>1. DOMAIN gens[g].members \subseteq Name
        BY <1>3, DirectoryFields
      <4>. QED BY <2>1, <3>1, <3>3, <4>1 DEF Kept, unused
    <3>5. DOMAIN gens[g].members \subseteq Name
      BY <1>3, DirectoryFields
    <3>. QED BY <1>1, <2>1, <3>1, <3>2, <3>4, <3>5 DEF Kept
  <2>. QED BY <1>2, <2>1, <2>2, <2>3 DEF FirstRunStep
<1>6. ASSUME NEW g \in Gen, gens[g].state = "complete"
      PROVE  /\ preserved(g)'
             /\ \A n, k \in Name : gens[g].target[n] # NoFile => at'[k] # gens[g].target[n]
  <2>1. /\ preserved(g)
        /\ \A n, k \in Name : gens[g].target[n] # NoFile => at[k] # gens[g].target[n]
    BY <1>6 DEF Directories
  <2>2. \A k \in Name : at'[k] = NoFile \/ (\E j \in Name : at'[k] = at[j]) \/ unused(at'[k])
    BY <1>2, <1>3 DEF FirstRunStep, JournalStep
  <2>3. \A n, k \in Name : gens[g].target[n] # NoFile => at'[k] # gens[g].target[n]
    BY <2>1, <2>2 DEF unused
  <2>4. \A f \in File : size'[f] = size[f] \/ unused(f) \/ f = at[Main]
    BY <1>2, <1>3 DEF FirstRunStep, JournalStep
  <2>5. gens[g].members \in [DOMAIN gens[g].members -> Member] /\ DOMAIN gens[g].members \subseteq Name
    BY <1>3, DirectoryFields
  <2>6. ASSUME NEW n \in DOMAIN gens[g].members PROVE size'[gens[g].members[n].id] = size[gens[g].members[n].id]
    <3>1. gens[g].members[n].id \in File /\ gens[g].target[n] = gens[g].members[n].id
      BY <2>1, <2>5 DEF preserved, matches, Member
    <3>. QED BY <1>3, <2>1, <2>4, <2>5, <3>1 DEF unused
  <2>7. preserved(g)'
    BY <1>1, <2>1, <2>6 DEF preserved, matches
  <2>. QED BY <2>3, <2>7
<1>7. \A g \in Gen : Unfinished(g)' = Unfinished(g)
  BY <1>1 DEF Unfinished
<1>8. (\E g \in Gen : Unfinished(g)') => \A q \in Proc : work'[q] \notin FirstRun
  BY <1>4, <1>7
<1>9. \A g, h \in Gen : Unfinished(g)' /\ Unfinished(h)' => g = h
  BY <1>7 DEF Directories
<1>10. \A g \in Gen : gens[g].state \in {"absent", "empty", "torn"} => \A n \in Name : gens[g].target[n] = NoFile
  BY DEF Directories
<1>. QED BY <1>1, <1>5, <1>6, <1>8, <1>9, <1>10 DEF Directories

-----------------------------------------------------------------------------

\* A journal appears only for the main file.
LEMMA OpeningRollback ==
    ASSUME OpenInv, FileTypes, Workers, Rollback, NEW p \in Proc, OpenStep(p)
    PROVE  Rollback'
<1>. USE DEF do, Rollback
<1>0. /\ conn \in [Proc -> File \cup {NoFile}] /\ at \in [Name -> File \cup {NoFile}]
      /\ base \in [File -> File \cup {NoFile}]
      /\ Main \in Name /\ Journal \in Name /\ p \in Name /\ Main # Journal /\ p # Main /\ p # Journal
      /\ NoFile \notin File
      /\ conn[p] # NoFile => conn[p] = at[Main]
  BY WorkTypes, SetAssumption DEF Name, OpenInv, ConnectedToCanonical
<1>1. CASE Open(p) \/ OpenRefused(p) \/ PassGate(p)
  BY <1>1 DEF Open, OpenRefused, PassGate, setVars
<1>2. CASE RefuseInventory(p) \/ OpenFails(p)
  BY <1>2 DEF RefuseInventory, OpenFails, giveUp
<1>3. CASE Inventory(p) \/ Close(p)
  BY <1>3 DEF Inventory, Close
<1>4. CASE BuildCandidate(p)
  BY <1>0, <1>4 DEF BuildCandidate, unused
<1>5. CASE InstallCandidate(p)
  <2>1. at[Main] = NoFile => at[Journal] = NoFile
    BY <1>5 DEF InstallCandidate, Workers
  <2>. QED BY <1>0, <1>5, <2>1 DEF InstallCandidate
<1>6. CASE Connect(p)
  BY <1>0, <1>6 DEF Connect, connect
<1>7. CASE Tidy(p)
  BY <1>0, <1>7 DEF Tidy
<1>8. CASE BeginWrite(p)
  <2>1. conn[p] # NoFile
    BY <1>8 DEF BeginWrite, Workers, Connected
  <2>. QED BY <1>0, <1>8, <2>1 DEF BeginWrite
<1>9. CASE Commit(p)
  BY <1>0, <1>9 DEF Commit
<1>. QED BY <1>1, <1>2, <1>3, <1>4, <1>5, <1>6, <1>7, <1>8, <1>9 DEF OpenStep

\* An opening removes only what it owns.
LEMMA OpeningLosesNothing ==
    ASSUME OpenInv, FileTypes, Workers, NothingLost, NEW p \in Proc, OpenStep(p)
    PROVE  NothingLost'
<1>. USE DEF do, NothingLost
<1>0. /\ at \in [Name -> File \cup {NoFile}] /\ gens' = gens
      /\ Main \in Name /\ Journal \in Name /\ p \in Name
      /\ NoFile \notin File /\ owed \subseteq Name \X File
  BY WorkTypes, SetAssumption, OpeningEffect DEF Name, FileTypes, SetTypeOK
<1>1. CASE Open(p) \/ OpenRefused(p) \/ PassGate(p)
  BY <1>1 DEF Open, OpenRefused, PassGate, setVars
<1>2. CASE RefuseInventory(p) \/ OpenFails(p)
  BY <1>2 DEF RefuseInventory, OpenFails, giveUp
<1>3. CASE Inventory(p) \/ Close(p)
  BY <1>3 DEF Inventory, Close
<1>4. CASE BuildCandidate(p)
  <2>1. at[p] = NoFile
    BY <1>4 DEF BuildCandidate, Workers
  <2>. QED BY <1>0, <1>4, <2>1 DEF BuildCandidate
<1>5. CASE InstallCandidate(p)
  BY <1>0, <1>5 DEF InstallCandidate
<1>6. ASSUME NEW n \in Name, NEW f \in File \cup {NoFile},
             at' = [at EXCEPT ![n] = f],
             owed' \subseteq (owed \ {<<n, at[n]>>}) \cup {<<n, f>>}
      PROVE  NothingLost'
  <2>1. ASSUME NEW pair \in owed', pair # <<n, f>>
        PROVE  \/ at'[pair[1]] = pair[2]
               \/ \E g \in Gen : gens[g].target[pair[1]] = pair[2]
    <3>1. pair \in owed /\ pair # <<n, at[n]>>
      BY <1>6, <2>1
    <3>2. PICK k \in Name, x \in File : pair = <<k, x>>
      BY <1>0, <3>1
    <3>3. k # n \/ x # at[n]
      BY <3>1, <3>2
    <3>. QED BY <1>0, <1>6, <3>1, <3>2, <3>3
  <2>2. at'[n] = f
    BY <1>0, <1>6
  <2>. QED BY <1>0, <2>1, <2>2
<1>7. CASE Connect(p)
  BY <1>0, <1>6, <1>7 DEF Connect, connect
<1>8. CASE Tidy(p)
  BY <1>0, <1>6, <1>8 DEF Tidy
<1>9. CASE BeginWrite(p)
  BY <1>0, <1>6, <1>9 DEF BeginWrite
<1>10. CASE Commit(p)
  BY <1>0, <1>6, <1>10 DEF Commit
<1>. QED BY <1>1, <1>2, <1>3, <1>4, <1>5, <1>7, <1>8, <1>9, <1>10 DEF OpenStep

\* While a holder has been refused nobody gets through the door.
LEMMA OpeningRefusals ==
    ASSUME OpenInv, FileTypes, Movers, OnlyDeadEndsRefuse, NEW p \in Proc, OpenStep(p)
    PROVE  OnlyDeadEndsRefuse'
<1>. SUFFICES ASSUME NEW q \in Proc, work'[q] = "failed", q \notin faulted'
              PROVE  \E g \in Gen : deadEnd(g)'
  BY DEF OnlyDeadEndsRefuse
<1>1. /\ UNCHANGED <<gens, block, blockGen, gen, intent, faulted, faults>>
      /\ OthersRest(p)
      /\ AtGate(p) \/ ThroughDoor(p)
  BY OpeningEffect
<1>2. work[q] = "failed"
  BY <1>1 DEF OthersRest, AtGate, ThroughDoor, Inside, Connected
<1>3. pc[q] = "drained"
  BY <1>1, <1>2 DEF Movers, Mover
<1>4. pc[p] # "open"
  BY <1>3 DEF OpenInv, IInv, DoorsShut, Holding
<1>5. UNCHANGED <<at, size>>
  BY <1>1, <1>4 DEF AtGate, ThroughDoor
<1>6. PICK g \in Gen : deadEnd(g)
  BY <1>1, <1>2 DEF OnlyDeadEndsRefuse
<1>7. deadEnd(g)'
  BY <1>1, <1>5, <1>6 DEF deadEnd, untouched, matches
<1>. QED BY <1>7

\* What an opening does keeps all that is said of the files.
LEMMA OpeningKeeps ==
    ASSUME OpenInv, FilesInv, NEW p \in Proc, OpenStep(p)
    PROVE  FilesInv'
<1>1. HalfMovedIsBlocked'
  <2>1. UNCHANGED <<gens, block, blockGen>>
    BY OpeningEffect DEF FilesInv
  <2>. QED BY <2>1 DEF FilesInv, HalfMovedIsBlocked
<1>. QED BY <1>1, OpeningTypes, OpeningWorkers, OpeningMovers, OpeningDirectories, OpeningRollback,
            OpeningLosesNothing, OpeningRefusals DEF FilesInv

-----------------------------------------------------------------------------

\* Who holds is the only one that moves, and nobody is inside.
Alone(p) ==
    /\ work[p] \notin Inside
    /\ \A q \in Proc \ {p} : /\ work[q] \notin Inside \cup Moving \cup {"failed"}
                             /\ pc[q] \notin Claiming

\* The gate gives the holder the set for itself.
LEMMA HolderAlone ==
    ASSUME OpenInv, Movers, NEW p \in Proc, pc[p] \in Holding
    PROVE  Alone(p) /\ intent = "valid" /\ attested \in {p, NoProc}
<1>1. /\ \A q \in Proc : pc[q] # "open" /\ (pc[q] \in Claiming => q = p)
      /\ intent = "valid"
  BY DEF OpenInv, IInv, DoorsShut, IntentClaimed, Claiming, Holding
<1>2. \A q \in Proc : work[q] \notin Inside
  BY <1>1 DEF OpenInv, ConnectedInside
<1>3. \A q \in Proc \ {p} : work[q] \notin Moving \cup {"failed"}
  BY <1>1 DEF Movers, Mover, Claiming, Holding
<1>4. attested \in {p, NoProc}
  BY <1>1 DEF OpenInv, IInv, TypeOK, AttestedAlone, Holding
<1>. QED BY <1>1, <1>2, <1>3, <1>4 DEF Alone

\* So a holder's step need be followed for the holder only.
LEMMA OthersStay ==
    ASSUME NEW p \in Proc, Alone(p), OthersRest(p), Mover(p)', UNCHANGED faulted
    PROVE  Movers'
BY DEF Alone, OthersRest, Movers, Mover, Moving, Claiming, Holding

\* A preservation meets nobody inside.
LEMMA PreservationWorkers ==
    ASSUME OpenInv, FileTypes, Workers, Movers, NEW p \in Proc, PreserveStep(p)
    PROVE  Workers'
<1>1. /\ UNCHANGED <<size, conn>> /\ OthersRest(p)
      /\ work'[p] \notin Inside
      /\ pc[p] \in Holding \/ UNCHANGED at
  BY PreservationEffect
<1>2. CASE pc[p] \in Holding
  <2>1. \A q \in Proc : work'[q] \notin Inside
    BY <1>1, <1>2, HolderAlone DEF Alone, OthersRest
  <2>. QED BY <2>1 DEF Workers, Inside, Connected
<1>3. CASE UNCHANGED at
  BY <1>1, <1>3 DEF Workers, OthersRest, Inside, Connected
<1>. QED BY <1>1, <1>2, <1>3

\* The steps that take the gate, and leave the files and directories alone.
LEMMA GateKeeps ==
    ASSUME OpenInv, FilesInv, NEW p \in Proc, BeginPreserve(p) \/ ClearResidue(p) \/ TakeGate(p)
    PROVE  /\ Movers' /\ Blockades' /\ Directories' /\ Rollback'
           /\ NothingLost' /\ HalfMovedIsBlocked' /\ OnlyDeadEndsRefuse'
<1>0. /\ FileTypes /\ Movers /\ Blockades /\ IntentClaimed /\ AttestedAlone /\ ConnectedInside
      /\ pc \in [Proc -> {pc[q] : q \in Proc}]
      /\ \A g \in Gen : /\ gens[g].state = "moving" => Kept(g)
  BY WorkTypes DEF OpenInv, IInv, FilesInv, Directories
<1>1. /\ UNCHANGED <<at, size, base, gens, blockGen, work, gen, conn, owed>>
      /\ pc[p] \notin Holding /\ OthersRest(p)
      /\ block' = block \/ (block = "torn" /\ block' = "absent" /\ pc[p] = "clearing")
      /\ faulted' = faulted \/ (faulted' = faulted \ {p} /\ pc[p] = "closed")
      /\ pc'[p] # "blocking"
      /\ work[p] = "failed" /\ faulted' = faulted => pc'[p] = pc[p]
  <2>1. work[p] = "failed" => pc[p] \in {"drained", "blocking", "draining"}
    BY <1>0 DEF Movers, Mover, Holding
  <2>2. CASE BeginPreserve(p)
    BY <1>0, <2>1, <2>2 DEF BeginPreserve, Attest, BeginExclusive, createIntent, mayStart, goto, OthersRest,
        Holding
  <2>3. CASE ClearResidue(p)
    BY <1>0, <2>1, <2>3 DEF ClearResidue, setVars, ClearingStep, QuarantineReader, QuarantineIntent,
        QuarantineBlock, ReclaimIntent, ClaimAttested, createIntent, goto, OthersRest, Holding
  <2>4. CASE TakeGate(p)
    BY <1>0, <2>4 DEF TakeGate, setVars, WriteIntent, ReclaimToken, Drain, goto, OthersRest, Holding
  <2>. QED BY <2>2, <2>3, <2>4
<1>2. /\ pc'[p] \in Claiming => pc[p] \in Claiming \/ intent = "absent" \/ block # "torn"
      /\ block = "torn" => intent' = intent \/ block' # "torn" \/ intent # "valid"
  <2>1. CASE BeginPreserve(p)
    BY <1>0, <2>1 DEF BeginPreserve, Attest, BeginExclusive, createIntent, mayStart, goto, Claiming
  <2>2. CASE ClearResidue(p)
    BY <1>0, <2>2 DEF ClearResidue, ClearingStep, QuarantineReader, QuarantineIntent,
        QuarantineBlock, ReclaimIntent, ClaimAttested, createIntent, goto, nothingTorn, Claiming
  <2>3. CASE TakeGate(p)
    BY <1>0, <2>3 DEF TakeGate, WriteIntent, ReclaimToken, Drain, goto, Claiming
  <2>. QED BY <2>1, <2>2, <2>3
<1>3. \A g : Aside(g)' = Aside(g)
  BY <1>1, AsideSame
<1>4. Movers'
  BY <1>0, <1>1, <1>3 DEF Movers, Mover, OthersRest, Holding, Moving
<1>5. Blockades'
  <2>1. block' # "absent" => \A q \in Proc : work'[q] \notin Inside
    BY <1>0, <1>1 DEF Blockades
  <2>2. block' = "torn" => intent' = "valid" /\ \A q \in Proc : pc'[q] \in Claiming => pc'[q] = "blocking"
    BY <1>0, <1>1, <1>2 DEF Blockades, OthersRest, Holding
  <2>3. \A q \in Proc : pc'[q] = "blocking" => block' = "torn"
    BY <1>0, <1>1 DEF Blockades, OthersRest, AttestedAlone
  <2>4. \A g : Unfinished(g)' = Unfinished(g)
    BY <1>1 DEF Unfinished
  <2>. QED BY <1>0, <1>1, <1>3, <2>1, <2>2, <2>3, <2>4 DEF Blockades
<1>6. Directories'
  <2>1. \A g : preserved(g)' = preserved(g) /\ Unfinished(g)' = Unfinished(g)
    BY <1>1 DEF preserved, matches, Unfinished
  <2>2. \A g \in Gen : gens[g].state = "moving" => Kept(g)'
    BY <1>0, <1>1 DEF Kept
  <2>. QED BY <1>1, <2>1, <2>2 DEF FilesInv, Directories
<1>7. NothingLost' /\ Rollback'
  BY <1>1 DEF FilesInv, NothingLost, Rollback
<1>8. HalfMovedIsBlocked'
  BY <1>1 DEF FilesInv, HalfMovedIsBlocked
<1>9. OnlyDeadEndsRefuse'
  <2>1. \A q \in Proc : work'[q] = "failed" /\ q \notin faulted' => work[q] = "failed" /\ q \notin faulted
    BY <1>0, <1>1 DEF Movers, Mover, Holding
  <2>2. \A g : deadEnd(g) => deadEnd(g)'
    BY <1>1 DEF deadEnd, untouched, matches
  <2>. QED BY <2>1, <2>2 DEF FilesInv, OnlyDeadEndsRefuse
<1>. QED BY <1>4, <1>5, <1>6, <1>7, <1>8, <1>9

-----------------------------------------------------------------------------

\* A holder's step: what there is to show.
KeepsFiles(p) ==
    /\ Mover(p)' /\ Blockades' /\ Directories' /\ Rollback'
    /\ NothingLost' /\ HalfMovedIsBlocked' /\ OnlyDeadEndsRefuse'

\* The members of a directory that moves without a blockade are where they were.
LEMMA UnblockedDirectories ==
    ASSUME FilesInv, block # "valid", NEW g \in Gen, gens[g].state # "complete"
    PROVE  \A n \in Name : gens[g].target[n] = NoFile
BY DEF FilesInv, FileTypes, SetTypeOK, Directories, HalfMovedIsBlocked

\* A directory that a holder has begun, its manifest not described yet.
LEMMA BegunKeeps ==
    ASSUME OpenInv, FilesInv, NEW p \in Proc, pc[p] \in Holding, NEW g \in Gen, NEW d \in Directory,
           block # "valid", UNCHANGED <<at, size, base, owed, block, blockGen, intent, faulted, pc>>,
           gens' = [gens EXCEPT ![g] = d], OthersRest(p), work'[p] \in {"manifest", "describing"},
           gens[g].state \in {"absent", "empty", "torn"},
           \A h \in Gen : Unfinished(h) => h = g,
           d.state \in {"empty", "torn"}, \A n \in Name : d.target[n] = NoFile
    PROVE  /\ Blockades' /\ Directories' /\ Rollback'
           /\ NothingLost' /\ HalfMovedIsBlocked' /\ OnlyDeadEndsRefuse'
<1>0. /\ gens \in [Gen -> Directory] /\ NoFile \notin File /\ owed \subseteq Name \X File
      /\ Alone(p)
  BY WorkTypes, SetAssumption, HolderAlone DEF FilesInv, FileTypes, SetTypeOK
<1>1. gens'[g] = d /\ \A h \in Gen \ {g} : gens'[h] = gens[h]
  BY <1>0
<1>2. \A q \in Proc : work'[q] \notin Inside \cup {"failed"}
  BY <1>0 DEF Alone, OthersRest, Inside, Connected
<1>3. Blockades'
  BY <1>2 DEF FilesInv, Blockades
<1>4. Directories'
  <2>1. \A h \in Gen \ {g} : ~Unfinished(h)'
    BY <1>1 DEF Unfinished
  <2>2. \A h \in Gen \ {g} : preserved(h)' = preserved(h)
    BY <1>1 DEF preserved, matches
  <2>3. \A q \in Proc : work'[q] \notin FirstRun
    BY <1>2 DEF FirstRun, Inside
  <2>. QED BY <1>1, <2>1, <2>2, <2>3 DEF FilesInv, Directories, Unfinished
<1>5. Rollback'
  BY DEF FilesInv, Rollback
<1>6. NothingLost'
  <2>1. \A n \in Name : gens[g].target[n] = NoFile
    BY UnblockedDirectories
  <2>2. ASSUME NEW pair \in owed PROVE at[pair[1]] = pair[2] \/ \E h \in Gen : gens'[h].target[pair[1]] = pair[2]
    <3>1. CASE at[pair[1]] = pair[2]
      BY <3>1
    <3>2. ASSUME NEW h \in Gen, gens[h].target[pair[1]] = pair[2]
          PROVE  gens'[h].target[pair[1]] = pair[2]
      <4>1. pair[1] \in Name /\ pair[2] # NoFile
        BY <1>0
      <4>. QED BY <1>1, <2>1, <3>2, <4>1
    <3>. QED BY <3>1, <3>2 DEF FilesInv, NothingLost
  <2>. QED BY <2>2 DEF NothingLost
<1>7. HalfMovedIsBlocked'
  BY <1>1 DEF FilesInv, HalfMovedIsBlocked
<1>8. OnlyDeadEndsRefuse'
  BY <1>2 DEF OnlyDeadEndsRefuse
<1>. QED BY <1>3, <1>4, <1>5, <1>6, <1>7, <1>8

\* Steps that only change what the holder is doing.
LEMMA StepsKeep ==
    ASSUME OpenInv, FilesInv, NEW p \in Proc, pc[p] \in Holding,
           UNCHANGED <<at, size, base, owed, gens, block, blockGen, intent, faulted, pc>>,
           OthersRest(p), work'[p] \in Moving
    PROVE  /\ Blockades' /\ Directories' /\ Rollback'
           /\ NothingLost' /\ HalfMovedIsBlocked' /\ OnlyDeadEndsRefuse'
<1>0. Alone(p)
  BY HolderAlone DEF FilesInv
<1>1. \A q \in Proc : work'[q] \notin Inside \cup {"failed"} \cup FirstRun
  BY <1>0 DEF Alone, OthersRest, Inside, Connected, FirstRun, Moving
<1>2. /\ \A g : Aside(g)' = Aside(g) /\ Unfinished(g)' = Unfinished(g)
      /\ \A g : preserved(g)' = preserved(g) /\ Kept(g)' = Kept(g)
  BY DEF Aside, Unfinished, preserved, matches, Kept
<1>3. Blockades'
  BY <1>1, <1>2 DEF FilesInv, Blockades
<1>4. Directories'
  BY <1>1, <1>2 DEF FilesInv, Directories
<1>. QED BY <1>1, <1>3, <1>4 DEF FilesInv, Rollback, NothingLost, HalfMovedIsBlocked, OnlyDeadEndsRefuse

\* The blockade names a directory whose members are on their way.
LEMMA ResumeKeeps ==
    ASSUME OpenInv, FilesInv, NEW p \in Proc, Resume(p)
    PROVE  KeepsFiles(p)
<1>1. /\ block = "valid" /\ blockGen \in Gen
      /\ pc[p] = "drained" /\ work[p] = "none" /\ pc' = pc
      /\ gens[blockGen].state = "moving" \/ preserved(blockGen)
      /\ work' = [work EXCEPT ![p] = IF preserved(blockGen) THEN "unblocking" ELSE "moving"]
      /\ gen' = [gen EXCEPT ![p] = blockGen] /\ gens' = [gens EXCEPT ![blockGen] = gens[blockGen]]
      /\ UNCHANGED <<at, size, base, owed, block, blockGen, intent, faulted, conn>>
  BY DEF Resume, canResume, onDirectory, do, gateVars, FilesInv, FileTypes, SetTypeOK
<1>2. /\ gens \in [Gen -> Directory] /\ work \in [Proc -> {work[q] : q \in Proc}]
      /\ gen \in [Proc -> Gen \cup {NoGen}]
  BY WorkTypes DEF FilesInv
<1>3. gens' = gens /\ OthersRest(p) /\ gen'[p] = blockGen /\ work'[p] \in {"unblocking", "moving"}
  BY <1>1, <1>2 DEF OthersRest
<1>4. Mover(p)'
  <2>1. preserved(blockGen) => gens[blockGen].state = "complete"
    BY DEF preserved
  <2>. QED BY <1>1, <1>2, <1>3, <2>1, SetAssumption DEF Mover, Holding, Moving
<1>. QED BY <1>1, <1>3, <1>4, StepsKeep DEF KeepsFiles, Moving, Holding

\* A new directory is begun where none is unfinished.
LEMMA StartOverKeeps ==
    ASSUME OpenInv, FilesInv, NEW p \in Proc, StartOver(p)
    PROVE  KeepsFiles(p)
<1>1. PICK g \in Gen :
        /\ gens[g].state = "absent"
        /\ onDirectory(p, "none", "manifest", g, [NoDirectory EXCEPT !.state = "empty"])
  BY DEF StartOver
<1>. DEFINE d == [NoDirectory EXCEPT !.state = "empty"]
<1>2. d \in Directory /\ d.state = "empty" /\ \A n \in Name : d.target[n] = NoFile
  BY NoDirectoryType DEF NoDirectory
<1>. HIDE DEF d
<1>3. /\ gens \in [Gen -> Directory] /\ work \in [Proc -> {work[q] : q \in Proc}]
      /\ gen \in [Proc -> Gen \cup {NoGen}]
  BY WorkTypes DEF FilesInv
<1>4. /\ pc[p] = "drained" /\ pc' = pc /\ work'[p] = "manifest" /\ gen'[p] = g
      /\ gens' = [gens EXCEPT ![g] = d]
      /\ UNCHANGED <<at, size, base, owed, block, blockGen, intent, faulted, conn>>
      /\ OthersRest(p)
  BY <1>1, <1>3 DEF onDirectory, do, gateVars, OthersRest, d
<1>5. block = "absent" /\ \A h \in Gen : ~Unfinished(h)
  BY DEF StartOver, canStart, incomplete, Unfinished, preserved
<1>6. Mover(p)'
  BY <1>1, <1>2, <1>3, <1>4, SetAssumption DEF Mover, Holding, Moving
<1>. QED BY <1>1, <1>2, <1>4, <1>5, <1>6, BegunKeeps DEF KeepsFiles, Holding

\* An orphaned manifest is adopted only while nothing of it has moved.
LEMMA AdoptKeeps ==
    ASSUME OpenInv, FilesInv, NEW p \in Proc, Adopt(p)
    PROVE  KeepsFiles(p)
<1>1. PICK g \in Gen :
        \/ canAdopt(g) /\ onDirectory(p, "none", "blockade", g, gens[g])
        \/ canFill(g) /\ onDirectory(p, "none", "manifest", g, gens[g])
  BY DEF Adopt
<1>2. /\ gens \in [Gen -> Directory] /\ work \in [Proc -> {work[q] : q \in Proc}]
      /\ gen \in [Proc -> Gen \cup {NoGen}]
  BY WorkTypes DEF FilesInv
<1>3. /\ pc[p] = "drained" /\ pc' = pc /\ gen'[p] = g
      /\ gens' = gens
      /\ UNCHANGED <<at, size, base, owed, block, blockGen, intent, faulted, conn>>
      /\ OthersRest(p)
      /\ \/ canAdopt(g) /\ work'[p] = "blockade"
         \/ canFill(g) /\ work'[p] = "manifest"
  BY <1>1, <1>2 DEF onDirectory, do, gateVars, OthersRest
<1>4. Mover(p)'
  <2>1. CASE canAdopt(g) /\ work'[p] = "blockade"
    <3>1. gens[g].state = "moving" /\ untouched(g)
      BY <2>1 DEF canAdopt, orphans
    <3>2. \A n \in DOMAIN gens[g].members : gens[g].members[n] \in Member
      BY <1>2, DirectoryFields
    <3>3. Aside(g)
      BY <3>1, <3>2 DEF untouched, matches, Aside
    <3>4. Aside(g)'
      BY <1>3, <3>3, AsideSame
    <3>. QED BY <1>3, <2>1, <3>1, <3>4, SetAssumption DEF Mover, Holding, Moving
  <2>2. CASE canFill(g) /\ work'[p] = "manifest"
    BY <1>3, <2>2, SetAssumption DEF Mover, Holding, Moving, canFill, empties
  <2>. QED BY <1>3, <2>1, <2>2
<1>. QED BY <1>3, <1>4, StepsKeep DEF KeepsFiles, Holding, Moving

\* A manifest is created, torn as yet.
LEMMA CreateManifestKeeps ==
    ASSUME OpenInv, FilesInv, NEW p \in Proc, CreateManifest(p)
    PROVE  KeepsFiles(p)
<1>. DEFINE g == gen[p]
            d == [gens[g] EXCEPT !.state = "torn"]
<1>1. work[p] = "manifest" /\ pc[p] = "drained" /\ gens[g].state = "empty" /\ g \in Gen /\ gens[g] \in Directory
  BY GenOf DEF CreateManifest, onDirectory, do, FilesInv, Movers, Mover, Moving
<1>2. d \in Directory /\ d.state = "torn" /\ d.target = gens[g].target
  BY <1>1 DEF Directory
<1>3. /\ gens \in [Gen -> Directory] /\ work \in [Proc -> {work[q] : q \in Proc}]
      /\ gen \in [Proc -> Gen \cup {NoGen}]
  BY WorkTypes DEF FilesInv
<1>4. /\ pc' = pc /\ work'[p] = "describing" /\ gen'[p] = g
      /\ gens' = [gens EXCEPT ![g] = d]
      /\ UNCHANGED <<at, size, base, owed, block, blockGen, intent, faulted, conn>>
      /\ OthersRest(p)
  BY <1>1, <1>3 DEF CreateManifest, onDirectory, do, gateVars, OthersRest
<1>. HIDE DEF d
<1>5. /\ \A h \in Gen : Unfinished(h) => h = g
      /\ block # "valid"
      /\ \A n \in Name : d.target[n] = NoFile
  BY <1>1, <1>2 DEF FilesInv, Directories, Blockades, Unfinished
<1>6. Mover(p)'
  BY <1>1, <1>2, <1>3, <1>4, SetAssumption DEF Mover, Holding, Moving
<1>7. UNCHANGED <<at, size, base, owed, block, blockGen, intent, faulted, pc>>
  BY <1>4
<1>. QED BY <1>1, <1>2, <1>4, <1>5, <1>6, <1>7, BegunKeeps DEF KeepsFiles, Holding

-----------------------------------------------------------------------------

\* The manifest names every file that has a name, as it is.
LEMMA WriteManifestKeeps ==
    ASSUME OpenInv, FilesInv, NEW p \in Proc, WriteManifest(p)
    PROVE  KeepsFiles(p)
<1>. DEFINE g == gen[p]
            found == {m \in Name : at[m] # NoFile}
            members == [n \in found |-> [id |-> at[n], size |-> size[at[n]],
                                         installed |-> FALSE, sourceRemoved |-> FALSE]]
            d == [gens[g] EXCEPT !.state = "moving", !.members = members]
<1>1. work[p] = "describing" /\ pc[p] = "drained" /\ gens[g].state = "torn" /\ g \in Gen /\ gens[g] \in Directory
  BY GenOf DEF WriteManifest, onDirectory, do, FilesInv, Movers, Mover, Moving
<1>2. d \in Directory /\ d.state = "moving" /\ d.target = gens[g].target /\ d.members = members
  <2>1. d \in Directory
    BY <1>1, InventoryType DEF FilesInv, OpenInv
  <2>. QED BY <1>1, <2>1 DEF Directory
<1>3. /\ gens \in [Gen -> Directory] /\ work \in [Proc -> {work[q] : q \in Proc}]
      /\ gen \in [Proc -> Gen \cup {NoGen}] /\ NoFile \notin File /\ owed \subseteq Name \X File
  BY WorkTypes, SetAssumption DEF FilesInv, FileTypes, SetTypeOK
<1>4. /\ pc' = pc /\ work'[p] = "blockade" /\ gen'[p] = g
      /\ gens' = [gens EXCEPT ![g] = d]
      /\ UNCHANGED <<at, size, base, owed, block, blockGen, intent, faulted, conn>>
      /\ OthersRest(p)
  BY <1>1, <1>3 DEF WriteManifest, onDirectory, do, gateVars, OthersRest
<1>. HIDE DEF d
<1>5. gens'[g] = d /\ \A h \in Gen \ {g} : gens'[h] = gens[h]
  BY <1>1, <1>3, <1>4
<1>6. /\ \A h \in Gen : Unfinished(h) => h = g
      /\ block # "valid"
      /\ \A n \in Name : d.target[n] = NoFile
  BY <1>1, <1>2 DEF FilesInv, Directories, Blockades, Unfinished
<1>7. Aside(g)'
  BY <1>2, <1>4, <1>5, <1>6 DEF Aside
<1>8. Mover(p)'
  BY <1>1, <1>2, <1>3, <1>4, <1>5, <1>7, SetAssumption DEF Mover, Holding, Moving
<1>9. \A q \in Proc : work'[q] \notin Inside \cup {"failed"} \cup FirstRun
  BY <1>1, <1>4, HolderAlone DEF FilesInv, Alone, OthersRest, Inside, Connected, FirstRun, Holding
<1>10. Blockades'
  BY <1>4, <1>6, <1>9 DEF FilesInv, Blockades
<1>11. Directories'
  <2>1. \A h \in Gen \ {g} : ~Unfinished(h)' /\ preserved(h)' = preserved(h)
    BY <1>4, <1>5, <1>6 DEF Unfinished, preserved, matches
  <2>2. Kept(g)'
    BY <1>2, <1>4, <1>5, <1>6 DEF Kept
  <2>. QED BY <1>1, <1>2, <1>4, <1>5, <1>6, <1>9, <2>1, <2>2 DEF FilesInv, Directories, Unfinished
<1>12. NothingLost'
  <2>1. ASSUME NEW h \in Gen PROVE gens'[h].target = gens[h].target
    BY <1>2, <1>5
  <2>. QED BY <1>4, <2>1 DEF FilesInv, NothingLost
<1>13. HalfMovedIsBlocked'
  BY <1>4, <1>5, <1>6 DEF FilesInv, HalfMovedIsBlocked
<1>14. Rollback' /\ OnlyDeadEndsRefuse'
  BY <1>4, <1>9 DEF FilesInv, Rollback, OnlyDeadEndsRefuse
<1>. QED BY <1>8, <1>10, <1>11, <1>12, <1>13, <1>14 DEF KeepsFiles

\* The members of the directory g go one step further; what leaves its name is in it.
Forwards(g, d) ==
    /\ d.state = "moving" /\ DOMAIN d.members = DOMAIN gens[g].members
    /\ \A n \in DOMAIN d.members : d.members[n].id = gens[g].members[n].id
    /\ \A n \in Name : \/ d.target[n] = gens[g].target[n]
                       \/ n \in DOMAIN d.members /\ gens[g].target[n] = NoFile
    /\ \A n \in Name : at'[n] = at[n] \/ (at'[n] = NoFile /\ d.target[n] = at[n])

\* Such a step keeps the invariant, whatever it is.
LEMMA ForwardsKeeps ==
    ASSUME OpenInv, FilesInv, NEW p \in Proc, pc[p] = "drained", work[p] = "moving", work'[p] = "moving",
           NEW d, gens' = [gens EXCEPT ![gen[p]] = d],
           Forwards(gen[p], d), Aside(gen[p])', OthersRest(p), gen'[p] = gen[p],
           UNCHANGED <<size, base, owed, block, blockGen, intent, faulted, pc>>
    PROVE  KeepsFiles(p)
<1>. DEFINE g == gen[p]
<1>1. /\ g \in Gen /\ gens[g].state = "moving" /\ block = "valid" /\ blockGen = g
      /\ g # NoGen
  BY GenOf, SetAssumption DEF FilesInv, Movers, Mover, Moving
<1>2. /\ gens \in [Gen -> Directory] /\ NoFile \notin File /\ owed \subseteq Name \X File
      /\ at \in [Name -> File \cup {NoFile}] /\ Main \in Name /\ Journal \in Name
  BY WorkTypes, SetAssumption DEF FilesInv, FileTypes, SetTypeOK, Name
<1>3. gens'[g] = d /\ \A h \in Gen \ {g} : gens'[h] = gens[h]
  BY <1>1, <1>2
<1>4. \A h \in Gen : Unfinished(h) => h = g
  BY <1>1 DEF FilesInv, Blockades
<1>5. Mover(p)'
  BY <1>1, <1>3 DEF Mover, Forwards, Holding, Moving
<1>6. \A q \in Proc : work'[q] \notin Inside \cup {"failed"} \cup FirstRun
  BY HolderAlone DEF FilesInv, Alone, OthersRest, Inside, Connected, FirstRun, Holding
<1>7. \A h \in Gen : h # g => ~Unfinished(h)' /\ preserved(h)' = preserved(h)
  BY <1>3, <1>4 DEF Unfinished, preserved, matches
<1>8. Blockades'
  BY <1>1, <1>3, <1>6, <1>7 DEF FilesInv, Blockades, Forwards
<1>9. Directories'
  <2>1. Kept(g)'
    <3>1. Kept(g)
      BY <1>1 DEF FilesInv, Directories
    <3>. QED BY <1>1, <1>3, <3>1 DEF Kept, Forwards
  <2>2. ASSUME NEW h \in Gen, gens'[h].state = "complete"
        PROVE  /\ preserved(h)'
               /\ \A n, k \in Name : gens'[h].target[n] # NoFile => at'[k] # gens'[h].target[n]
    <3>1. h # g /\ gens'[h] = gens[h]
      BY <1>3, <2>2 DEF Forwards
    <3>2. /\ preserved(h)
          /\ \A n, k \in Name : gens[h].target[n] # NoFile => at[k] # gens[h].target[n]
      BY <2>2, <3>1 DEF FilesInv, Directories
    <3>. QED BY <1>7, <3>1, <3>2 DEF Forwards
  <2>3. ASSUME NEW h \in Gen, gens'[h].state \in {"absent", "empty", "torn"}
        PROVE  \A n \in Name : gens'[h].target[n] = NoFile
    <3>1. h # g /\ gens'[h] = gens[h]
      BY <1>3, <2>3 DEF Forwards
    <3>. QED BY <2>3, <3>1 DEF FilesInv, Directories
  <2>4. \A h \in Gen : gens'[h].state = "moving" => h = g
    BY <1>7 DEF Unfinished
  <2>. QED BY <1>6, <1>7, <2>1, <2>2, <2>3, <2>4 DEF Directories
<1>10. NothingLost'
  <2>. SUFFICES ASSUME NEW pair \in owed
                PROVE  at'[pair[1]] = pair[2] \/ \E h \in Gen : gens'[h].target[pair[1]] = pair[2]
    BY DEF NothingLost
  <2>1. pair[1] \in Name /\ pair[2] # NoFile
    BY <1>2
  <2>2. CASE at[pair[1]] = pair[2]
    BY <1>1, <1>3, <2>1, <2>2 DEF Forwards
  <2>3. ASSUME NEW h \in Gen, gens[h].target[pair[1]] = pair[2]
        PROVE  gens'[h].target[pair[1]] = pair[2]
    BY <1>3, <2>1, <2>3 DEF Forwards
  <2>. QED BY <2>2, <2>3 DEF FilesInv, NothingLost
<1>11. HalfMovedIsBlocked'
  <2>1. \A h \in Gen : gens'[h].state = "moving" => h = g
    BY <1>7 DEF Unfinished
  <2>. QED BY <1>1, <2>1 DEF HalfMovedIsBlocked
<1>12. Rollback'
  BY <1>2 DEF FilesInv, Rollback, Forwards
<1>13. OnlyDeadEndsRefuse'
  BY <1>6 DEF OnlyDeadEndsRefuse
<1>. QED BY <1>5, <1>8, <1>9, <1>10, <1>11, <1>12, <1>13 DEF KeepsFiles

\* Where a mover stands with its member.
LEMMA MovingAside ==
    ASSUME OpenInv, FilesInv, NEW p \in Proc, atMember(p)
    PROVE  /\ Aside(gen[p]) /\ gens[gen[p]].state = "moving" /\ gen[p] \in Gen
           /\ gens[gen[p]] \in Directory
           /\ current(gen[p]) \in DOMAIN gens[gen[p]].members /\ current(gen[p]) \in Name
           /\ DOMAIN gens[gen[p]].members \subseteq Name
           /\ ~member(p).sourceRemoved /\ member(p).id \in File /\ NoFile \notin File
           /\ pc[p] = "drained" /\ work[p] = "moving"
           /\ at \in [Name -> File \cup {NoFile}]
<1>1. /\ gens[gen[p]].state = "moving" /\ block = "valid" /\ blockGen = gen[p]
      /\ pc[p] = "drained" /\ work[p] = "moving"
  BY DEF atMember, FilesInv, Movers, Mover
<1>2. Aside(gen[p])
  BY <1>1 DEF FilesInv, Blockades
<1>3. /\ current(gen[p]) \in DOMAIN gens[gen[p]].members /\ current(gen[p]) \in Name
      /\ ~member(p).sourceRemoved
      /\ gen[p] \in Gen /\ gens[gen[p]] \in Directory
      /\ member(p) \in Member
  BY MemberTypes DEF FilesInv
<1>. QED BY <1>1, <1>2, <1>3, WorkTypes, DirectoryFields, SetAssumption DEF Member, FilesInv

\* The member gets its second name, and keeps its first.
LEMMA LinkMemberKeeps ==
    ASSUME OpenInv, FilesInv, NEW p \in Proc, LinkMember(p)
    PROVE  KeepsFiles(p)
<1>. DEFINE g == gen[p]
            c == current(g)
            d == [gens[g] EXCEPT !.target[c] = at[c]]
<1>1. /\ Aside(g) /\ gens[g].state = "moving" /\ g \in Gen /\ gens[g] \in Directory
      /\ c \in DOMAIN gens[g].members /\ c \in Name /\ DOMAIN gens[g].members \subseteq Name
      /\ gens[g].members[c].id \in File /\ NoFile \notin File
      /\ pc[p] = "drained" /\ work[p] = "moving"
  BY MovingAside DEF LinkMember, member
<1>2. ~gens[g].members[c].installed /\ gens[g].target[c] = NoFile /\ at[c] = gens[g].members[c].id
  BY DEF LinkMember, member, target, source, matches
<1>3. /\ d.state = "moving" /\ d.members = gens[g].members /\ d.target = [gens[g].target EXCEPT ![c] = at[c]]
      /\ gens[g].target \in [Name -> File \cup {NoFile}]
  BY <1>1 DEF Directory
<1>4. /\ gens \in [Gen -> Directory] /\ work \in [Proc -> {work[q] : q \in Proc}]
      /\ gen \in [Proc -> Gen \cup {NoGen}]
  BY WorkTypes DEF FilesInv
<1>5. /\ pc' = pc /\ work'[p] = "moving" /\ gen'[p] = g
      /\ gens' = [gens EXCEPT ![g] = d]
      /\ UNCHANGED <<at, size, base, owed, block, blockGen, intent, faulted, conn>>
      /\ OthersRest(p)
  BY <1>1, <1>4 DEF LinkMember, advance, onDirectory, do, gateVars, OthersRest, source
<1>. HIDE DEF d, c
<1>6. gens'[g] = d
  BY <1>1, <1>4, <1>5
<1>7. Forwards(g, d)
  BY <1>1, <1>2, <1>3, <1>5 DEF Forwards
<1>8. Aside(g)'
  BY <1>1, <1>2, <1>3, <1>5, <1>6 DEF Aside
<1>9. UNCHANGED <<size, base, owed, block, blockGen, intent, faulted, pc>>
  BY <1>5
<1>. QED BY <1>1, <1>5, <1>7, <1>8, <1>9, ForwardsKeeps

\* What a record of a member's progress changes.
LEMMA RecordFields ==
    ASSUME NEW d \in Directory, NEW n \in DOMAIN d.members, NEW e,
           \/ e = [d EXCEPT !.members[n].installed = TRUE]
           \/ e = [d EXCEPT !.members[n].sourceRemoved = TRUE]
    PROVE  /\ e.state = d.state /\ e.target = d.target
           /\ DOMAIN e.members = DOMAIN d.members
           /\ \A k \in DOMAIN e.members : k # n => e.members[k] = d.members[k]
<1>1. "members" \in DOMAIN d /\ "state" \in DOMAIN d /\ "target" \in DOMAIN d
  BY DEF Directory
<1>. QED BY <1>1

LEMMA InstalledFields ==
    ASSUME NEW d \in Directory, NEW n \in DOMAIN d.members, NEW e,
           e = [d EXCEPT !.members[n].installed = TRUE]
    PROVE  /\ e.members[n].id = d.members[n].id /\ e.members[n].size = d.members[n].size
           /\ e.members[n].installed /\ e.members[n].sourceRemoved = d.members[n].sourceRemoved
<1>1. "members" \in DOMAIN d
  BY DEF Directory
<1>2. d.members[n] \in Member
  BY DirectoryFields
<1>3. e.members = [d.members EXCEPT ![n].installed = TRUE]
  BY <1>1
<1>. QED BY <1>2, <1>3 DEF Member

LEMMA RemovedFields ==
    ASSUME NEW d \in Directory, NEW n \in DOMAIN d.members, NEW e,
           e = [d EXCEPT !.members[n].sourceRemoved = TRUE]
    PROVE  /\ e.members[n].id = d.members[n].id /\ e.members[n].size = d.members[n].size
           /\ e.members[n].installed = d.members[n].installed
<1>1. "members" \in DOMAIN d
  BY DEF Directory
<1>2. d.members[n] \in Member
  BY DirectoryFields
<1>3. e.members = [d.members EXCEPT ![n].sourceRemoved = TRUE]
  BY <1>1
<1>. QED BY <1>2, <1>3 DEF Member

\* That the member is in the directory is recorded once it is.
LEMMA RecordInstalledKeeps ==
    ASSUME OpenInv, FilesInv, NEW p \in Proc, RecordInstalled(p)
    PROVE  KeepsFiles(p)
<1>. DEFINE g == gen[p]
            c == current(g)
            d == [gens[g] EXCEPT !.members[c].installed = TRUE]
<1>1. /\ Aside(g) /\ gens[g].state = "moving" /\ g \in Gen /\ gens[g] \in Directory
      /\ c \in DOMAIN gens[g].members /\ c \in Name /\ DOMAIN gens[g].members \subseteq Name
      /\ gens[g].members[c].id \in File /\ NoFile \notin File /\ ~gens[g].members[c].sourceRemoved
      /\ pc[p] = "drained" /\ work[p] = "moving"
  BY MovingAside DEF RecordInstalled, member
<1>2. ~gens[g].members[c].installed /\ gens[g].target[c] = gens[g].members[c].id
  BY DEF RecordInstalled, member, target, matches
<1>3. /\ d.state = "moving" /\ d.target = gens[g].target
      /\ DOMAIN d.members = DOMAIN gens[g].members
      /\ \A n \in DOMAIN d.members : n # c => d.members[n] = gens[g].members[n]
  BY <1>1, RecordFields
<1>4. /\ gens \in [Gen -> Directory] /\ work \in [Proc -> {work[q] : q \in Proc}]
      /\ gen \in [Proc -> Gen \cup {NoGen}]
  BY WorkTypes DEF FilesInv
<1>5. /\ pc' = pc /\ work'[p] = "moving" /\ gen'[p] = g
      /\ gens' = [gens EXCEPT ![g] = d]
      /\ UNCHANGED <<at, size, base, owed, block, blockGen, intent, faulted, conn>>
      /\ OthersRest(p)
  BY <1>1, <1>4 DEF RecordInstalled, advance, onDirectory, do, gateVars, OthersRest
<1>. HIDE DEF d, c
<1>6. gens'[g] = d
  BY <1>1, <1>4, <1>5
<1>7. /\ d.members[c].id = gens[g].members[c].id /\ d.members[c].size = gens[g].members[c].size
      /\ d.members[c].installed /\ ~d.members[c].sourceRemoved
  BY <1>1, InstalledFields DEF d
<1>8. Forwards(g, d)
  BY <1>1, <1>3, <1>5, <1>7 DEF Forwards
<1>9. Aside(g)'
  BY <1>1, <1>2, <1>3, <1>5, <1>6, <1>7 DEF Aside
<1>10. UNCHANGED <<size, base, owed, block, blockGen, intent, faulted, pc>>
  BY <1>5
<1>. QED BY <1>1, <1>5, <1>8, <1>9, <1>10, ForwardsKeeps

\* That its name is free is recorded once it is.
LEMMA RecordRemovedKeeps ==
    ASSUME OpenInv, FilesInv, NEW p \in Proc, RecordRemoved(p)
    PROVE  KeepsFiles(p)
<1>. DEFINE g == gen[p]
            c == current(g)
            d == [gens[g] EXCEPT !.members[c].sourceRemoved = TRUE]
<1>1. /\ Aside(g) /\ gens[g].state = "moving" /\ g \in Gen /\ gens[g] \in Directory
      /\ c \in DOMAIN gens[g].members /\ c \in Name /\ DOMAIN gens[g].members \subseteq Name
      /\ pc[p] = "drained" /\ work[p] = "moving"
  BY MovingAside DEF RecordRemoved, member
<1>2. gens[g].members[c].installed /\ at[c] = NoFile
  BY DEF RecordRemoved, member, source
<1>3. /\ d.state = "moving" /\ d.target = gens[g].target
      /\ DOMAIN d.members = DOMAIN gens[g].members
      /\ \A n \in DOMAIN d.members : n # c => d.members[n] = gens[g].members[n]
  BY <1>1, RecordFields
<1>4. /\ gens \in [Gen -> Directory] /\ work \in [Proc -> {work[q] : q \in Proc}]
      /\ gen \in [Proc -> Gen \cup {NoGen}]
  BY WorkTypes DEF FilesInv
<1>5. /\ pc' = pc /\ work'[p] = "moving" /\ gen'[p] = g
      /\ gens' = [gens EXCEPT ![g] = d]
      /\ UNCHANGED <<at, size, base, owed, block, blockGen, intent, faulted, conn>>
      /\ OthersRest(p)
  BY <1>1, <1>4 DEF RecordRemoved, advance, onDirectory, do, gateVars, OthersRest
<1>. HIDE DEF d, c
<1>6. gens'[g] = d
  BY <1>1, <1>4, <1>5
<1>7. /\ d.members[c].id = gens[g].members[c].id /\ d.members[c].size = gens[g].members[c].size
      /\ d.members[c].installed
  BY <1>1, <1>2, RemovedFields DEF d
<1>8. Forwards(g, d)
  BY <1>1, <1>3, <1>5, <1>7 DEF Forwards
<1>9. Aside(g)'
  BY <1>1, <1>2, <1>3, <1>5, <1>6, <1>7 DEF Aside
<1>10. UNCHANGED <<size, base, owed, block, blockGen, intent, faulted, pc>>
  BY <1>5
<1>. QED BY <1>1, <1>5, <1>8, <1>9, <1>10, ForwardsKeeps

\* A member leaves its name when it is in the directory.
LEMMA UnlinkMemberKeeps ==
    ASSUME OpenInv, FilesInv, NEW p \in Proc, UnlinkMember(p)
    PROVE  KeepsFiles(p)
<1>. DEFINE g == gen[p]
            c == current(g)
<1>1. /\ Aside(g) /\ gens[g].state = "moving" /\ g \in Gen /\ gens[g] \in Directory
      /\ c \in DOMAIN gens[g].members /\ c \in Name /\ DOMAIN gens[g].members \subseteq Name
      /\ pc[p] = "drained" /\ work[p] = "moving" /\ at \in [Name -> File \cup {NoFile}]
  BY MovingAside DEF UnlinkMember, member
<1>2. gens[g].members[c].installed /\ gens[g].target[c] = at[c]
  BY DEF UnlinkMember, member, source, target, matches
<1>3. /\ pc' = pc /\ work'[p] = "moving" /\ gen'[p] = g
      /\ gens' = gens /\ at' = [at EXCEPT ![c] = NoFile]
      /\ UNCHANGED <<size, base, owed, block, blockGen, intent, faulted, conn>>
      /\ OthersRest(p)
  BY <1>1 DEF UnlinkMember, gateVars, OthersRest
<1>4. gens \in [Gen -> Directory]
  BY WorkTypes DEF FilesInv
<1>5. gens' = [gens EXCEPT ![g] = gens[g]]
  BY <1>1, <1>3, <1>4
<1>. HIDE DEF c
<1>6. Forwards(g, gens[g])
  BY <1>1, <1>2, <1>3 DEF Forwards
<1>7. Aside(g)'
  BY <1>1, <1>2, <1>3 DEF Aside
<1>8. UNCHANGED <<size, base, owed, block, blockGen, intent, faulted, pc>>
  BY <1>3
<1>. QED BY <1>1, <1>3, <1>5, <1>6, <1>7, <1>8, ForwardsKeeps

-----------------------------------------------------------------------------

\* A manifest is complete when every member is in the directory, and then no name of the set
\* is left with one of them.
LEMMA CompleteManifestKeeps ==
    ASSUME OpenInv, FilesInv, NEW p \in Proc, CompleteManifest(p)
    PROVE  KeepsFiles(p)
<1>. DEFINE g == gen[p]
            d == [gens[g] EXCEPT !.state = "complete"]
<1>1. /\ work[p] = "moving" /\ pc[p] = "drained" /\ gens[g].state = "moving"
      /\ block = "valid" /\ blockGen = g /\ g \in Gen /\ gens[g] \in Directory /\ Aside(g) /\ Kept(g)
  <2>1. work[p] = "moving" /\ pc[p] = "drained"
    BY DEF CompleteManifest, onDirectory
  <2>2. g \in Gen /\ gens[g] \in Directory
    BY <2>1, GenOf DEF FilesInv, Moving
  <2>3. gens[g].state = "moving" /\ block = "valid" /\ blockGen = g
    BY <2>1 DEF FilesInv, Movers, Mover
  <2>. QED BY <2>1, <2>2, <2>3 DEF FilesInv, Blockades, Directories
<1>2. d.state = "complete" /\ d.target = gens[g].target /\ d.members = gens[g].members
  BY <1>1 DEF Directory
<1>3. /\ gens \in [Gen -> Directory] /\ work \in [Proc -> {work[q] : q \in Proc}]
      /\ gen \in [Proc -> Gen \cup {NoGen}] /\ g # NoGen
  BY <1>1, WorkTypes, SetAssumption DEF FilesInv
<1>4. /\ pc' = pc /\ work'[p] = "unblocking" /\ gen'[p] = g
      /\ gens' = [gens EXCEPT ![g] = d]
      /\ UNCHANGED <<at, size, base, owed, block, blockGen, intent, faulted, conn>>
      /\ OthersRest(p)
  BY <1>1, <1>3 DEF CompleteManifest, onDirectory, do, gateVars, OthersRest
<1>. HIDE DEF d
<1>5. gens'[g] = d /\ \A h \in Gen \ {g} : gens'[h] = gens[h]
  BY <1>1, <1>3, <1>4
<1>6. \A h \in Gen : ~Unfinished(h)'
  BY <1>1, <1>2, <1>5 DEF Unfinished, FilesInv, Blockades
<1>7. Mover(p)'
  BY <1>1, <1>2, <1>3, <1>4, <1>5 DEF Mover, Holding, Moving
<1>8. \A q \in Proc : work'[q] \notin Inside \cup {"failed"}
  BY <1>1, <1>4, HolderAlone DEF FilesInv, Alone, OthersRest, Inside, Connected, Holding
<1>9. Blockades'
  BY <1>1, <1>2, <1>4, <1>5, <1>6, <1>8 DEF FilesInv, Blockades
<1>10. left(g) = {} /\ validates(g)
  BY DEF CompleteManifest
<1>11. preserved(g)'
  <2>1. \A n \in DOMAIN gens[g].members : gens[g].members[n].installed /\ gens[g].members[n].sourceRemoved
    BY <1>1, <1>10 DEF left, Aside
  <2>. QED BY <1>2, <1>4, <1>5, <1>10, <2>1 DEF preserved, validates, matches
<1>12. \A n, k \in Name : gens[g].target[n] # NoFile => at[k] # gens[g].target[n]
  <2>. SUFFICES ASSUME NEW n \in Name, NEW k \in Name, gens[g].target[n] # NoFile, at[k] = gens[g].target[n]
                PROVE  FALSE
    OBVIOUS
  <2>1. n \in DOMAIN gens[g].members
    BY <1>1 DEF Kept
  <2>2. gens[g].target[n] = gens[g].members[n].id
    BY <1>10, <2>1 DEF validates, matches
  <2>3. k \notin DOMAIN gens[g].members
    BY <1>10 DEF validates
  <2>. QED BY <1>1, <2>1, <2>2, <2>3 DEF Kept
<1>13. Directories'
  <2>1. ASSUME NEW h \in Gen \ {g} PROVE gens'[h] = gens[h] /\ preserved(h)' = preserved(h)
    BY <1>4, <1>5 DEF preserved, matches
  <2>2. ASSUME NEW h \in Gen, gens'[h].state = "complete"
        PROVE  /\ preserved(h)'
               /\ \A n, k \in Name : gens'[h].target[n] # NoFile => at'[k] # gens'[h].target[n]
    <3>1. CASE h = g
      BY <1>2, <1>4, <1>5, <1>11, <1>12, <3>1
    <3>2. CASE h # g
      BY <1>4, <2>1, <2>2, <3>2 DEF FilesInv, Directories
    <3>. QED BY <3>1, <3>2
  <2>3. ASSUME NEW h \in Gen, gens'[h].state \in {"absent", "empty", "torn"}
        PROVE  \A n \in Name : gens'[h].target[n] = NoFile
    <3>1. h # g
      BY <1>2, <1>5, <2>3
    <3>. QED BY <2>1, <2>3, <3>1 DEF FilesInv, Directories
  <2>. QED BY <1>6, <2>2, <2>3 DEF Directories, Unfinished
<1>14. NothingLost'
  <2>1. ASSUME NEW h \in Gen PROVE gens'[h].target = gens[h].target
    BY <1>2, <1>5
  <2>. QED BY <1>4, <2>1 DEF FilesInv, NothingLost
<1>15. HalfMovedIsBlocked'
  BY <1>6 DEF HalfMovedIsBlocked, Unfinished
<1>16. Rollback' /\ OnlyDeadEndsRefuse'
  BY <1>4, <1>8 DEF FilesInv, Rollback, OnlyDeadEndsRefuse
<1>. QED BY <1>7, <1>9, <1>13, <1>14, <1>15, <1>16 DEF KeepsFiles

\* Steps on the blockade leave the files and the directories alone.
LEMMA BlockadeStepKeeps ==
    ASSUME OpenInv, FilesInv, NEW p \in Proc, pc[p] \in Holding, work'[p] \in Moving,
           UNCHANGED <<at, size, base, owed, gens, intent, faulted>>, OthersRest(p),
           Mover(p)', Blockades', HalfMovedIsBlocked',
           \A g \in Gen : gens[g].state = "moving" => Kept(g)'
    PROVE  KeepsFiles(p)
<1>1. \A q \in Proc : work'[q] \notin Inside \cup {"failed"} \cup FirstRun
  BY HolderAlone DEF FilesInv, Alone, OthersRest, Inside, Connected, FirstRun, Moving
<1>2. \A g : Unfinished(g)' = Unfinished(g) /\ preserved(g)' = preserved(g)
  BY DEF Unfinished, preserved, matches
<1>3. Directories'
  BY <1>1, <1>2 DEF FilesInv, Directories
<1>4. NothingLost' /\ Rollback' /\ OnlyDeadEndsRefuse'
  BY <1>1 DEF FilesInv, NothingLost, Rollback, OnlyDeadEndsRefuse
<1>. QED BY <1>3, <1>4 DEF KeepsFiles

\* The blockade is created, torn as yet, with its intent in place.
LEMMA CreateBlockadeKeeps ==
    ASSUME OpenInv, FilesInv, NEW p \in Proc, CreateBlockade(p)
    PROVE  KeepsFiles(p)
<1>1. /\ pc[p] = "drained" /\ work[p] = "blockade" /\ block = "absent" /\ block' = "torn"
      /\ pc'[p] = "blocking" /\ OthersRest(p)
      /\ UNCHANGED <<at, size, base, owed, gens, blockGen, gen, work, intent, faulted>>
  BY WorkTypes DEF CreateBlockade, CreateBlock, setVars, goto, OthersRest, FilesInv
<1>2. /\ Alone(p) /\ intent = "valid"
  BY <1>1, HolderAlone DEF FilesInv, Holding
<1>3. \A g : Aside(g)' = Aside(g)
  BY <1>1, AsideSame
<1>4. Mover(p)'
  BY <1>1, <1>3 DEF FilesInv, Movers, Mover, Holding, Moving
<1>5. Blockades'
  BY <1>1, <1>2 DEF Blockades, Alone, OthersRest, Inside, Connected
<1>6. HalfMovedIsBlocked'
  BY <1>1 DEF FilesInv, HalfMovedIsBlocked
<1>7. \A g \in Gen : gens[g].state = "moving" => Kept(g)'
  BY <1>1 DEF FilesInv, Directories, Kept
<1>. QED BY <1>1, <1>4, <1>5, <1>6, <1>7, BlockadeStepKeeps DEF Holding, Moving

\* It names the one directory that is unfinished.
LEMMA WriteBlockadeKeeps ==
    ASSUME OpenInv, FilesInv, NEW p \in Proc, WriteBlockade(p)
    PROVE  KeepsFiles(p)
<1>1. /\ pc[p] = "blocking" /\ work[p] = "blockade" /\ block' = "valid" /\ blockGen' = gen[p]
      /\ pc'[p] = "drained" /\ work'[p] = "moving" /\ OthersRest(p)
      /\ UNCHANGED <<at, size, base, owed, gens, gen, intent, faulted>>
  BY WorkTypes DEF WriteBlockade, WriteBlock, do, goto, OthersRest, FilesInv
<1>2. Alone(p)
  BY <1>1, HolderAlone DEF FilesInv, Holding
<1>3. \A g : Aside(g)' = Aside(g) /\ Unfinished(g)' = Unfinished(g)
  BY <1>1, AsideSame DEF Unfinished
<1>4. gen[p] \in Gen /\ gen[p] # NoGen /\ gens[gen[p]].state = "moving" /\ Aside(gen[p])
  BY <1>1, GenOf DEF FilesInv, Movers, Mover, Moving
<1>5. \A g \in Gen : Unfinished(g) => g = gen[p]
  BY <1>4 DEF FilesInv, Directories, Unfinished
<1>6. Mover(p)'
  BY <1>1, <1>4 DEF Mover, Holding, Moving
<1>7. Blockades'
  BY <1>1, <1>2, <1>3, <1>4, <1>5 DEF Blockades, Alone, OthersRest, Inside, Connected, Claiming
<1>8. HalfMovedIsBlocked'
  BY <1>1, <1>5 DEF HalfMovedIsBlocked, Unfinished
<1>9. \A g \in Gen : gens[g].state = "moving" => Kept(g)'
  BY <1>1 DEF FilesInv, Directories, Kept
<1>. QED BY <1>1, <1>6, <1>7, <1>8, <1>9, BlockadeStepKeeps DEF Holding, Moving

\* It goes when that directory is complete.
LEMMA UnblockKeeps ==
    ASSUME OpenInv, FilesInv, NEW p \in Proc, Unblock(p)
    PROVE  KeepsFiles(p)
<1>1. /\ pc[p] = "drained" /\ work[p] = "unblocking" /\ block = "valid" /\ block' = "absent"
      /\ work'[p] = "finishing" /\ OthersRest(p)
      /\ UNCHANGED <<at, size, base, owed, gens, gen, intent, faulted, pc>>
  BY WorkTypes DEF Unblock, RemoveBlock, do, goto, OthersRest, FilesInv
<1>2. Alone(p)
  BY <1>1, HolderAlone DEF FilesInv, Holding
<1>3. gen[p] # NoGen /\ gen[p] = blockGen /\ gens[blockGen].state = "complete"
  BY <1>1 DEF FilesInv, Movers, Mover, Moving
<1>4. \A g \in Gen : ~Unfinished(g)
  BY <1>1, <1>3 DEF FilesInv, Blockades, Unfinished
<1>5. Mover(p)'
  BY <1>1, <1>3 DEF Mover, Holding, Moving
<1>6. Blockades'
  BY <1>1, <1>2 DEF Blockades, Alone, OthersRest, Claiming
<1>7. HalfMovedIsBlocked' /\ \A g \in Gen : gens[g].state # "moving"
  BY <1>1, <1>4 DEF HalfMovedIsBlocked, Unfinished
<1>. QED BY <1>1, <1>5, <1>6, <1>7, BlockadeStepKeeps DEF Holding, Moving

-----------------------------------------------------------------------------

\* A process that stops, whatever it was doing, leaves the set as it is.
LEMMA LeavingKeeps ==
    ASSUME OpenInv, FilesInv, NEW p \in Proc, work'[p] = "none", pc'[p] = "closed",
           UNCHANGED <<at, size, base, owed, gens, block, blockGen, faulted>>, OthersRest(p),
           block = "torn" => intent' = intent
    PROVE  /\ Workers' /\ Movers' /\ Blockades' /\ Directories' /\ Rollback'
           /\ NothingLost' /\ HalfMovedIsBlocked' /\ OnlyDeadEndsRefuse'
<1>1. /\ \A g : Aside(g)' = Aside(g) /\ Unfinished(g)' = Unfinished(g)
      /\ \A g : preserved(g)' = preserved(g) /\ Kept(g)' = Kept(g)
      /\ \A g : deadEnd(g)' = deadEnd(g)
  BY DEF Aside, Unfinished, preserved, matches, Kept, deadEnd, untouched
<1>2. Workers'
  BY DEF FilesInv, Workers, OthersRest, Connected
<1>3. Movers'
  BY <1>1 DEF FilesInv, Movers, Mover, OthersRest, Moving
<1>4. Blockades'
  BY <1>1 DEF FilesInv, Blockades, OthersRest, Inside, Connected, Claiming
<1>5. Directories'
  BY <1>1 DEF FilesInv, Directories, OthersRest, FirstRun
<1>6. OnlyDeadEndsRefuse'
  <2>1. \A q \in Proc : work'[q] = "failed" => work[q] = "failed"
    BY DEF OthersRest
  <2>. QED BY <1>1, <2>1 DEF FilesInv, OnlyDeadEndsRefuse
<1>. QED BY <1>2, <1>3, <1>4, <1>5, <1>6 DEF FilesInv, Rollback, NothingLost, HalfMovedIsBlocked

\* What a holder refuses to continue from is a dead end.
LEMMA RefusesOnlyDeadEnds ==
    ASSUME OpenInv, FilesInv, NEW p \in Proc, pc[p] = "drained", refuses(p)
    PROVE  \E g \in Gen : deadEnd(g)
<1>1. block \in {"absent", "valid"}
  BY DEF FilesInv, Blockades, Claiming, OpenInv, IInv, TypeOK, Marker
<1>2. CASE surveyRefuses
  <2>1. block = "absent"
    <3>. SUFFICES ASSUME block = "valid" PROVE FALSE
      BY <1>1
    <3>1. blockGen \in Gen
      BY DEF FilesInv, FileTypes, SetTypeOK
    <3>. QED BY <1>2, <3>1 DEF surveyRefuses, canResume, FilesInv, Blockades, Directories
  <2>2. PICK g \in Gen : g \in incomplete
    BY <1>2, <2>1 DEF surveyRefuses, canStart, incomplete
  <2>3. \A h \in Gen : h \in incomplete => Unfinished(h)
    BY WorkTypes, DirectoryFields DEF FilesInv, Directories, incomplete, Unfinished
  <2>4. \A h \in Gen : Unfinished(h) => h = g
    BY <2>2, <2>3 DEF FilesInv, Directories
  <2>5. Unfinished(g) /\ incomplete = {g}
    BY <2>2, <2>3, <2>4 DEF incomplete
  <2>6. CASE gens[g].state = "torn"
    BY <2>6 DEF deadEnd
  <2>7. CASE gens[g].state = "moving"
    <3>1. orphans = {g}
      BY <2>4, <2>7 DEF orphans, Unfinished
    <3>2. ~untouched(g)
      BY <1>2, <2>1, <3>1 DEF surveyRefuses, canAdopt
    <3>. QED BY <2>1, <2>7, <3>2 DEF deadEnd
  <2>8. CASE gens[g].state = "empty"
    <3>1. orphans = {} /\ empties = {g}
      BY <2>4, <2>8 DEF orphans, empties, Unfinished
    <3>. QED BY <1>2, <2>1, <2>5, <3>1 DEF surveyRefuses, canFill
  <2>. QED BY <2>5, <2>6, <2>7, <2>8 DEF Unfinished
<1>3. CASE atMember(p) /\ memberRefuses(p)
  <2>. DEFINE c == current(gen[p])
  <2>1. /\ Aside(gen[p]) /\ c \in DOMAIN gens[gen[p]].members
        /\ gens[gen[p]].members[c].id \in File /\ NoFile \notin File
    BY <1>3, MovingAside DEF member
  <2>. HIDE DEF c
  <2>2. member(p) = gens[gen[p]].members[c] /\ source(p) = at[c] /\ target(p) = gens[gen[p]].target[c]
    BY DEF member, source, target, c
  <2>. QED BY <1>3, <2>1, <2>2 DEF memberRefuses, matches, Aside
<1>4. CASE work[p] = "moving" /\ left(gen[p]) = {} /\ ~validates(gen[p])
  <2>1. gens[gen[p]].state = "moving" /\ block = "valid" /\ blockGen = gen[p]
    BY <1>4 DEF FilesInv, Movers, Mover
  <2>2. Aside(gen[p])
    BY <2>1 DEF FilesInv, Blockades
  <2>. QED BY <1>4, <2>2 DEF left, validates, matches, Aside
<1>. QED BY <1>2, <1>3, <1>4 DEF refuses

\* A refusal leaves the set as it is.
LEMMA RefuseKeeps ==
    ASSUME OpenInv, FilesInv, NEW p \in Proc, Refuse(p)
    PROVE  KeepsFiles(p)
<1>1. /\ pc[p] = "drained" /\ work'[p] = "failed" /\ OthersRest(p)
      /\ UNCHANGED <<at, size, base, owed, gens, block, blockGen, gen, intent, faulted, pc>>
  BY WorkTypes DEF Refuse, fail, gateVars, OthersRest, FilesInv
<1>2. PICK g \in Gen : deadEnd(g)
  BY <1>1, RefusesOnlyDeadEnds DEF Refuse
<1>3. \A h : /\ Aside(h)' = Aside(h) /\ Unfinished(h)' = Unfinished(h)
             /\ preserved(h)' = preserved(h) /\ Kept(h)' = Kept(h) /\ deadEnd(h)' = deadEnd(h)
  BY <1>1 DEF Aside, Unfinished, preserved, matches, Kept, deadEnd, untouched
<1>4. \A q \in Proc : work'[q] \notin Inside \cup FirstRun
  BY <1>1, HolderAlone DEF FilesInv, Alone, OthersRest, Inside, Connected, FirstRun, Holding
<1>5. Mover(p)'
  BY <1>1 DEF Mover, Holding, Moving
<1>6. Blockades'
  BY <1>1, <1>3, <1>4 DEF FilesInv, Blockades
<1>7. Directories'
  BY <1>1, <1>3, <1>4 DEF FilesInv, Directories
<1>8. OnlyDeadEndsRefuse'
  BY <1>2, <1>3 DEF OnlyDeadEndsRefuse
<1>. QED BY <1>1, <1>5, <1>6, <1>7, <1>8 DEF KeepsFiles, FilesInv, Rollback, NothingLost, HalfMovedIsBlocked

\* What a process does that moves the set keeps all that is said of the files.
LEMMA PreservationKeeps ==
    ASSUME OpenInv, FilesInv, NEW p \in Proc, PreserveStep(p)
    PROVE  FilesInv'
<1>1. FileTypes' /\ Workers' /\ OthersRest(p)
  BY PreservationTypes, PreservationWorkers, PreservationEffect DEF FilesInv
<1>2. CASE BeginPreserve(p) \/ ClearResidue(p) \/ TakeGate(p)
  BY <1>1, <1>2, GateKeeps DEF FilesInv
<1>3. CASE Finish(p)
  <2>1. /\ work'[p] = "none" /\ pc'[p] = "closed" /\ block = "absent"
        /\ UNCHANGED <<at, size, base, owed, gens, block, blockGen, faulted>>
    BY <1>3, WorkTypes DEF Finish, Release, do, goto, FilesInv
  <2>. QED BY <1>1, <2>1, LeavingKeeps DEF FilesInv
<1>4. CASE StopFailed(p)
  <2>1. /\ work'[p] = "none" /\ pc'[p] = "closed"
        /\ block = "torn" => intent' = intent
        /\ UNCHANGED <<at, size, base, owed, gens, block, blockGen, faulted>>
    BY <1>4, WorkTypes DEF StopFailed, Release, Crash, do, goto, FilesInv
  <2>. QED BY <1>1, <2>1, LeavingKeeps DEF FilesInv
<1>5. ASSUME pc[p] \in Holding, UNCHANGED faulted, KeepsFiles(p)
      PROVE  FilesInv'
  <2>1. Alone(p)
    BY <1>5, HolderAlone DEF FilesInv
  <2>2. Movers'
    BY <1>1, <1>5, <2>1, OthersStay DEF KeepsFiles
  <2>. QED BY <1>1, <1>5, <2>2 DEF KeepsFiles, FilesInv
<1>6. ASSUME NEW from, NEW to, NEW g, NEW directory, onDirectory(p, from, to, g, directory)
      PROVE  pc[p] \in Holding /\ UNCHANGED faulted
  BY <1>6 DEF onDirectory, Holding
<1>7. CASE Resume(p) \/ StartOver(p) \/ Adopt(p)
  <2>1. pc[p] \in Holding /\ UNCHANGED faulted
    BY <1>6, <1>7 DEF Resume, StartOver, Adopt
  <2>. QED BY <1>5, <1>7, <2>1, ResumeKeeps, StartOverKeeps, AdoptKeeps
<1>8. CASE CreateManifest(p) \/ WriteManifest(p) \/ CompleteManifest(p)
  <2>1. pc[p] \in Holding /\ UNCHANGED faulted
    BY <1>6, <1>8 DEF CreateManifest, WriteManifest, CompleteManifest
  <2>. QED BY <1>5, <1>8, <2>1, CreateManifestKeeps, WriteManifestKeeps, CompleteManifestKeeps
<1>9. CASE LinkMember(p) \/ RecordInstalled(p) \/ RecordRemoved(p)
  <2>1. pc[p] \in Holding /\ UNCHANGED faulted
    BY <1>6, <1>9 DEF LinkMember, RecordInstalled, RecordRemoved, advance
  <2>. QED BY <1>5, <1>9, <2>1, LinkMemberKeeps, RecordInstalledKeeps, RecordRemovedKeeps
<1>10. CASE UnlinkMember(p)
  BY <1>5, <1>10, UnlinkMemberKeeps DEF UnlinkMember, atMember, Holding
<1>11. CASE CreateBlockade(p) \/ WriteBlockade(p) \/ Unblock(p)
  <2>1. pc[p] \in Holding /\ UNCHANGED faulted
    BY <1>11 DEF CreateBlockade, CreateBlock, setVars, WriteBlockade, WriteBlock, Unblock, RemoveBlock, goto, Holding
  <2>. QED BY <1>5, <1>11, <2>1, CreateBlockadeKeeps, WriteBlockadeKeeps, UnblockKeeps
<1>12. CASE Refuse(p)
  BY <1>5, <1>12, RefuseKeeps DEF Refuse, Holding
<1>. QED BY <1>2, <1>3, <1>4, <1>7, <1>8, <1>9, <1>10, <1>11, <1>12 DEF PreserveStep

\* So does an operation that throws.
LEMMA FaultKeeps ==
    ASSUME OpenInv, FilesInv, NEW p \in Proc, Fault(p)
    PROVE  FilesInv'
<1>1. /\ pc[p] \in Holding \cup {"draining"} /\ work'[p] = "failed" /\ OthersRest(p)
      /\ UNCHANGED <<at, size, base, owed, gens, block, blockGen, gen, intent, pc, conn, dialog>>
      /\ faulted' = faulted \cup {p} /\ faults < MaxFaults /\ faults' = faults + 1
      /\ work' = [work EXCEPT ![p] = "failed"]
  BY WorkTypes DEF Fault, fail, gateVars, OthersRest, FilesInv
<1>2. \A h : /\ Aside(h)' = Aside(h) /\ Unfinished(h)' = Unfinished(h)
             /\ preserved(h)' = preserved(h) /\ Kept(h)' = Kept(h) /\ deadEnd(h)' = deadEnd(h)
  BY <1>1 DEF Aside, Unfinished, preserved, matches, Kept, deadEnd, untouched
<1>3. FileTypes'
  <2>1. faults' \in 0..MaxFaults
    BY <1>1, SetAssumption DEF FilesInv, FileTypes, SetTypeOK
  <2>. QED BY <1>1, <2>1 DEF FilesInv, FileTypes, SetTypeOK
<1>4. Workers'
  BY <1>1 DEF FilesInv, Workers, OthersRest, Connected
<1>5. Movers'
  BY <1>1, <1>2 DEF FilesInv, Movers, Mover, OthersRest, Moving
<1>6. Blockades'
  BY <1>1, <1>2 DEF FilesInv, Blockades, OthersRest, Inside, Connected
<1>7. Directories'
  BY <1>1, <1>2 DEF FilesInv, Directories, OthersRest, FirstRun
<1>8. OnlyDeadEndsRefuse'
  <2>1. \A q \in Proc : work'[q] = "failed" /\ q \notin faulted' => work[q] = "failed" /\ q \notin faulted
    BY <1>1 DEF OthersRest
  <2>. QED BY <1>2, <2>1 DEF FilesInv, OnlyDeadEndsRefuse
<1>. QED BY <1>1, <1>3, <1>4, <1>5, <1>6, <1>7, <1>8 DEF FilesInv, Rollback, NothingLost, HalfMovedIsBlocked

\* And a death, wherever it comes.
LEMMA DeathKeeps ==
    ASSUME OpenInv, FilesInv, NEW p \in Proc, Die(p)
    PROVE  FilesInv'
<1>1. /\ work'[p] = "none" /\ pc'[p] = "closed" /\ OthersRest(p)
      /\ UNCHANGED <<at, size, base, owed, gens, block, blockGen, intent, faulted>>
      /\ faults < MaxFaults /\ faults' = faults + 1
      /\ work' = [work EXCEPT ![p] = "none"] /\ gen' = [gen EXCEPT ![p] = NoGen]
      /\ conn' = [conn EXCEPT ![p] = NoFile] /\ dialog' \subseteq dialog
  BY WorkTypes DEF Die, Crash, OthersRest, FilesInv
<1>2. FileTypes'
  <2>1. faults' \in 0..MaxFaults
    BY <1>1, SetAssumption DEF FilesInv, FileTypes, SetTypeOK
  <2>. QED BY <1>1, <2>1 DEF FilesInv, FileTypes, SetTypeOK
<1>. QED BY <1>1, <1>2, LeavingKeeps DEF FilesInv

-----------------------------------------------------------------------------

\* At first there is no directory, and a journal that is there is of the main file.
LEMMA FilesInit == Init => FilesInv
<1>. SUFFICES ASSUME Init PROVE FilesInv
  OBVIOUS
<1>. USE SetAssumption
<1>1. PICK main \in File \cup {NoFile}, log \in File \cup {NoFile}, sidecar \in {Journal, Wal} :
        /\ main = NoFile \/ main # log
        /\ at = [[n \in Name |-> NoFile] EXCEPT ![Main] = main, ![sidecar] = log]
        /\ base = [f \in File |-> IF f = log THEN main ELSE NoFile]
        /\ owed = {<<n, at[n]>> : n \in {m \in Name : at[m] # NoFile}}
  BY DEF Init
<1>2. /\ block = "absent" /\ blockGen = NoGen /\ dialog = {} /\ faulted = {} /\ faults = 0
      /\ size = [f \in File |-> 0] /\ gens = [g \in Gen |-> NoDirectory]
      /\ work = [p \in Proc |-> "none"] /\ pc = [p \in Proc |-> "closed"]
      /\ gen = [p \in Proc |-> NoGen] /\ conn = [p \in Proc |-> NoFile]
  BY DEF Init, GateInit
<1>3. Main \in Name /\ Journal \in Name /\ Wal \in Name /\ Main # Journal /\ Main # Wal
  BY DEF Name
<1>4. /\ at \in [Name -> File \cup {NoFile}] /\ base \in [File -> File \cup {NoFile}]
      /\ owed \subseteq Name \X File /\ 0 \in 0..MaxSize /\ 0 \in 0..MaxFaults
  <2>1. at \in [Name -> File \cup {NoFile}]
    BY <1>1
  <2>2. owed \subseteq Name \X File
    BY <1>1, <2>1
  <2>. QED BY <1>1, <2>1, <2>2
<1>5. /\ \A g \in Gen : gens[g] = NoDirectory /\ gens[g] \in Directory
      /\ NoDirectory.state = "absent" /\ \A n \in Name : NoDirectory.target[n] = NoFile
  BY <1>2, NoDirectoryType DEF NoDirectory
<1>6. FileTypes
  <2>1. gens \in [Gen -> Directory]
    BY <1>2, <1>5
  <2>2. \A g \in Gen : /\ gens[g].state \in {"absent", "empty", "torn", "moving", "complete"}
                       /\ DOMAIN gens[g].members \subseteq Name
                       /\ gens[g].target \in [Name -> File \cup {NoFile}]
    BY <1>5, DirectoryFields
  <2>. QED BY <1>2, <1>4, <2>1, <2>2 DEF FileTypes, SetTypeOK
<1>7. Workers /\ Movers
  BY <1>2 DEF Workers, Movers, Mover, Connected, Moving
<1>8. Blockades
  BY <1>2 DEF Blockades
<1>9. Directories
  BY <1>2, <1>5 DEF Directories, Unfinished, FirstRun
<1>10. Rollback
  BY <1>1, <1>3, <1>4 DEF Rollback
<1>11. NothingLost
  BY <1>1 DEF NothingLost
<1>12. HalfMovedIsBlocked /\ OnlyDeadEndsRefuse
  BY <1>2, <1>5 DEF HalfMovedIsBlocked, OnlyDeadEndsRefuse
<1>. QED BY <1>6, <1>7, <1>8, <1>9, <1>10, <1>11, <1>12 DEF FilesInv

\* Every step keeps it.
LEMMA FilesStep == OpenInv /\ FilesInv /\ [Next]_vars => FilesInv'
<1>. SUFFICES ASSUME OpenInv, FilesInv, [Next]_vars PROVE FilesInv'
  OBVIOUS
<1>1. CASE UNCHANGED vars
  <2>1. /\ UNCHANGED <<at, size, base, gens, blockGen, work, gen, conn, dialog, faulted, owed, faults>>
        /\ UNCHANGED <<intent, block, pc>>
    BY <1>1 DEF vars, gateVars, setVars
  <2>2. \A g : /\ Aside(g)' = Aside(g) /\ Unfinished(g)' = Unfinished(g)
               /\ preserved(g)' = preserved(g) /\ Kept(g)' = Kept(g) /\ deadEnd(g)' = deadEnd(g)
    BY <2>1 DEF Aside, Unfinished, preserved, matches, Kept, deadEnd, untouched
  <2>3. FileTypes' /\ Workers'
    BY <2>1 DEF FilesInv, FileTypes, SetTypeOK, Workers
  <2>4. Movers' /\ Blockades' /\ Directories'
    BY <2>1, <2>2 DEF FilesInv, Movers, Mover, Blockades, Directories
  <2>5. Rollback' /\ NothingLost' /\ HalfMovedIsBlocked' /\ OnlyDeadEndsRefuse'
    BY <2>1, <2>2 DEF FilesInv, Rollback, NothingLost, HalfMovedIsBlocked, OnlyDeadEndsRefuse
  <2>. QED BY <2>3, <2>4, <2>5 DEF FilesInv
<1>. QED BY <1>1, OpeningKeeps, PreservationKeeps, FaultKeeps, DeathKeeps DEF Next

\* The files, the manifests and what each process does with them are as declared.
THEOREM FilesTyped == Spec => []SetTypeOK
<1>1. Init => OpenInv /\ FilesInv
  BY OpenInit, FilesInit
<1>2. OpenInv /\ FilesInv /\ [Next]_vars => OpenInv' /\ FilesInv'
  BY OpenStepInvariant, FilesStep
<1>3. FilesInv => SetTypeOK
  BY DEF FilesInv, FileTypes
<1>. QED BY <1>1, <1>2, <1>3, PTL DEF Spec

\* Whoever dies or fails between two file operations, no file of the set is lost or
\* overwritten: it has its name, or has it in a recovery directory.
THEOREM FilesKept == Spec => []NothingLost
<1>1. Init => OpenInv /\ FilesInv
  BY OpenInit, FilesInit
<1>2. OpenInv /\ FilesInv /\ [Next]_vars => OpenInv' /\ FilesInv'
  BY OpenStepInvariant, FilesStep
<1>3. FilesInv => NothingLost
  BY DEF FilesInv
<1>. QED BY <1>1, <1>2, <1>3, PTL DEF Spec

\* No part of a set leaves its name before a blockade says where it is going, and the
\* blockade stays until all of it is there.
THEOREM HalfMovesBlocked == Spec => []HalfMovedIsBlocked
<1>1. Init => OpenInv /\ FilesInv
  BY OpenInit, FilesInit
<1>2. OpenInv /\ FilesInv /\ [Next]_vars => OpenInv' /\ FilesInv'
  BY OpenStepInvariant, FilesStep
<1>3. FilesInv => HalfMovedIsBlocked
  BY DEF FilesInv
<1>. QED BY <1>1, <1>2, <1>3, PTL DEF Spec

\* A preservation whose file operations all succeed is refused only by a torn manifest,
\* or by one whose members were written to when it had let go of the gate.
THEOREM RefusalsAreDeadEnds == Spec => []OnlyDeadEndsRefuse
<1>1. Init => OpenInv /\ FilesInv
  BY OpenInit, FilesInit
<1>2. OpenInv /\ FilesInv /\ [Next]_vars => OpenInv' /\ FilesInv'
  BY OpenStepInvariant, FilesStep
<1>3. FilesInv => OnlyDeadEndsRefuse
  BY DEF FilesInv
<1>. QED BY <1>1, <1>2, <1>3, PTL DEF Spec

\* The step that connects finds the journal of this very file, and no wal.
LEMMA ReplaysItsOwn ==
    ASSUME OpenInv, FilesInv, [Next]_vars, NEW q \in Proc, conn'[q] \notin {NoFile, conn[q]},
           NEW n \in {Journal, Wal}, at[n] # NoFile
    PROVE  base[at[n]] = conn'[q]
<1>1. conn \in [Proc -> File \cup {NoFile}]
  BY WorkTypes DEF FilesInv
<1>2. PICK p \in Proc : OpenStep(p)
  <2>1. ASSUME NEW p \in Proc, PreserveStep(p) PROVE FALSE
    BY <2>1, PreservationEffect DEF FilesInv
  <2>2. ASSUME NEW p \in Proc, Fault(p) PROVE FALSE
    BY <2>2 DEF Fault, fail
  <2>3. ASSUME NEW p \in Proc, Die(p) PROVE FALSE
    BY <1>1, <2>3 DEF Die
  <2>4. ~UNCHANGED vars
    BY DEF vars, setVars
  <2>. QED BY <2>1, <2>2, <2>3, <2>4 DEF Next
<1>3. Connect(p)
  BY <1>1, <1>2 DEF OpenStep, Open, OpenRefused, PassGate, setVars, RefuseInventory, OpenFails, giveUp,
      Inventory, BuildCandidate, InstallCandidate, Tidy, BeginWrite, Commit, Close
<1>4. /\ at[Main] # NoFile /\ ~preflight_refuses /\ conn' = [conn EXCEPT ![p] = at[Main]]
  BY <1>3 DEF Connect, connect
<1>5. n = Journal /\ conn'[q] = at[Main]
  BY <1>1, <1>4 DEF preflight_refuses
<1>. QED BY <1>4, <1>5 DEF FilesInv, Rollback

\* SQLite replays into no database what was written of another one.
THEOREM NothingReplayed == Spec => NoForeignReplay
<1>. DEFINE OfItsOwn ==
       \A p \in Proc : conn'[p] \notin {NoFile, conn[p]} =>
           \A n \in {Journal, Wal} : at[n] # NoFile => base[at[n]] = conn'[p]
<1>1. Init => OpenInv /\ FilesInv
  BY OpenInit, FilesInit
<1>2. OpenInv /\ FilesInv /\ [Next]_vars => OpenInv' /\ FilesInv'
  BY OpenStepInvariant, FilesStep
<1>3. OpenInv /\ FilesInv /\ [Next]_vars => [OfItsOwn]_vars
  BY ReplaysItsOwn
<1>. QED BY <1>1, <1>2, <1>3, PTL DEF Spec, NoForeignReplay, OfItsOwn
=============================================================================
