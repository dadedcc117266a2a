---------------------------- MODULE OpenRecovery ----------------------------
(***************************************************************************)
(* What processes do with the files of a database once they are through    *)
(* its gate: a reader inventories the set, installs a fresh database where *)
(* there is none, connects and writes; an exclusive holder moves the whole *)
(* set into a recovery directory, resuming what a dead one began.          *)
(* sqlite-open-recovery.ts, desktop/main/desktop-state-database.ts.        *)
(*                                                                         *)
(* RecoveryGate is extended: its actions are taken with the steps on the   *)
(* set, and GateSpec is what remains when the set is hidden.               *)
(***************************************************************************)
EXTENDS RecoveryGate, Naturals

CONSTANTS
    Main, Journal, Wal,     \* names of the set; a candidate goes by its process
    File, NoFile,           \* inodes; one without a name is used again
    Gen, NoGen,             \* recovery directories
    Desktop,                \* the desktop's flow, or the library's gates alone
    MaxSize,                \* bounds how often a file grows
    MaxFaults               \* bounds the deaths and failing operations

Name == {Main, Journal, Wal} \cup Proc

ASSUME SetAssumption ==
    /\ Main # Journal /\ Main # Wal /\ Journal # Wal /\ {Main, Journal, Wal} \cap Proc = {}
    /\ NoFile \notin File /\ NoGen \notin Gen
    /\ Desktop \in BOOLEAN /\ MaxSize \in Nat /\ MaxFaults \in Nat

VARIABLES
    at,         \* the file that each name of the set is linked to
    size,       \* the size of each file
    base,       \* the main file whose transaction a journal or wal holds
    gens,       \* the recovery directories with their manifests
    blockGen,   \* the directory that a valid blockade names
    work,       \* what each process does with the set
    gen,        \* the directory a holder works on
    conn,       \* the file a process is connected to
    dialog,     \* the processes whose last open was refused
    faulted,    \* the holders whose attempt met a failing operation
    owed,       \* every file of the set not removed on purpose, with its name
    faults

setVars == <<at, size, base, gens, blockGen, work, gen, conn, dialog, faulted, owed, faults>>
vars == <<gateVars, setVars>>

\* state: the directory is absent, empty, or has a manifest that is torn, moving or
\* complete.
NoDirectory == [state |-> "absent", members |-> <<>>, target |-> [n \in Name |-> NoFile]]

Connected == {"using", "writing"}
Moving == {"manifest", "describing", "blockade", "moving", "unblocking", "finishing"}

SetTypeOK ==
    /\ at \in [Name -> File \cup {NoFile}]
    /\ size \in [File -> 0..MaxSize]
    /\ base \in [File -> File \cup {NoFile}]
    /\ \A g \in Gen :
        /\ gens[g].state \in {"absent", "empty", "torn", "moving", "complete"}
        /\ DOMAIN gens[g].members \subseteq Name
        /\ gens[g].target \in [Name -> File \cup {NoFile}]
    /\ blockGen \in Gen \cup {NoGen}
    /\ work \in [Proc -> {"none", "building", "installing", "installed", "connecting", "tidying", "failed"}
                         \cup Connected \cup Moving]
    /\ gen \in [Proc -> Gen \cup {NoGen}]
    /\ conn \in [Proc -> File \cup {NoFile}]
    /\ dialog \subseteq Proc /\ faulted \subseteq Proc
    /\ owed \subseteq Name \X File
    /\ faults \in 0..MaxFaults
    /\ (block = "valid") <=> (blockGen # NoGen)

\* First run, or a set that some other program left with a journal or with a wal, which
\* this one never writes.
Init ==
    /\ GateInit
    /\ \E main, log \in File \cup {NoFile}, sidecar \in {Journal, Wal} :
        /\ main = NoFile \/ main # log
        /\ at = [[n \in Name |-> NoFile] EXCEPT ![Main] = main, ![sidecar] = log]
        /\ base = [f \in File |-> IF f = log THEN main ELSE NoFile]
        /\ owed = {<<n, at[n]>> : n \in {m \in Name : at[m] # NoFile}}
    /\ size = [f \in File |-> 0]
    /\ gens = [g \in Gen |-> NoDirectory]
    /\ blockGen = NoGen
    /\ work = [p \in Proc |-> "none"]
    /\ gen = [p \in Proc |-> NoGen]
    /\ conn = [p \in Proc |-> NoFile]
    /\ dialog = {} /\ faulted = {} /\ faults = 0

do(p, from, to) == work[p] = from /\ work' = [work EXCEPT ![p] = to]

\* An inode that no name holds.
unused(f) ==
    /\ \A n \in Name : at[n] # f
    /\ \A g \in Gen, n \in Name : gens[g].target[n] # f
    /\ \A p \in Proc : conn[p] # f

-----------------------------------------------------------------------------
(* inventory_sqlite_basename *)

\* stat_matches: the exact incarnation that a manifest member names.
matches(file, member) == file = member.id /\ size[member.id] = member.size

\* Mutant: the set moved aside counts only while its names are free.
preserved_unreplaced(g) ==
    /\ gens[g].state = "complete"
    /\ \A n \in DOMAIN gens[g].members :
        LET m == gens[g].members[n]
        IN  m.installed /\ m.sourceRemoved /\ matches(gens[g].target[n], m) /\ at[n] = NoFile

\* validate_completed_preservation
preserved(g) ==
    /\ gens[g].state = "complete"
    /\ \A n \in DOMAIN gens[g].members :
        LET m == gens[g].members[n]
        IN  m.installed /\ m.sourceRemoved /\ matches(gens[g].target[n], m)

incomplete == {g \in Gen : gens[g].state # "absent" /\ ~preserved(g)}

\* Mutant: a journal that lies there alone is overlooked.
has_absence_evidence_managed ==
    \/ block # "absent"
    \/ incomplete # {}

has_absence_evidence ==
    \/ \E n \in Name \ {Main} : at[n] # NoFile
    \/ block # "absent"
    \/ incomplete # {}

\* assert_preflight_inventory throws.  It also does for a main file of size zero, which no
\* process of this module makes.
preflight_refuses ==
    \/ block # "absent"
    \/ at[Main] = NoFile /\ has_absence_evidence
    \/ at[Main] # NoFile /\ at[Wal] # NoFile

-----------------------------------------------------------------------------
(* Opening *)

\* preflight_recovery_condition: the desktop does not wait for an intent.
obstructed == tornReaders # {} \/ intent # "absent" \/ block # "absent"

Open(p) ==
    /\ Desktop => ~obstructed
    /\ BeginOpen(p)
    /\ dialog' = dialog \ {p}
    /\ UNCHANGED <<at, size, base, gens, blockGen, work, gen, conn, faulted, owed, faults>>

OpenRefused(p) ==
    /\ Desktop /\ obstructed
    /\ mayStart(p)
    /\ dialog' = dialog \cup {p}
    /\ UNCHANGED <<gateVars, at, size, base, gens, blockGen, work, gen, conn, faulted, owed, faults>>

PassGate(p) == ReaderStep(p) /\ UNCHANGED setVars

\* The open throws: the token goes and, on the desktop, the dialog comes.
giveUp(p) ==
    /\ CloseReader(p)
    /\ work' = [work EXCEPT ![p] = "none"]
    /\ dialog' = dialog \cup {p}
    /\ UNCHANGED <<at, size, base, gens, blockGen, gen, conn, faulted, owed, faults>>

RefuseInventory(p) ==
    /\ pc[p] = "open"
    /\ \/ work[p] = "none" /\ preflight_refuses
       \/ work[p] \in {"connecting", "installed"} /\ (preflight_refuses \/ at[Main] = NoFile)
    /\ giveUp(p)

Inventory(p) ==
    /\ pc[p] = "open"
    /\ ~preflight_refuses
    /\ do(p, "none", IF at[Main] = NoFile THEN "building" ELSE "connecting")
    /\ UNCHANGED <<gateVars, at, size, base, gens, blockGen, gen, conn, dialog, faulted, owed, faults>>

\* build_candidate and its install snapshot, which is another link to the same file.
BuildCandidate(p) ==
    /\ do(p, "building", "installing")
    /\ \E f \in File :
        /\ unused(f)
        /\ at' = [at EXCEPT ![p] = f]
        /\ size' = [size EXCEPT ![f] = 0]
        /\ base' = [base EXCEPT ![f] = NoFile]
        /\ owed' = owed \cup {<<p, f>>}
    /\ UNCHANGED <<gateVars, gens, blockGen, gen, conn, dialog, faulted, faults>>

\* Mutant: the candidate replaces whatever has the name.
InstallCandidate_over(p) ==
    /\ do(p, "installing", "installed")
    /\ at' = [at EXCEPT ![Main] = at[p]]
    /\ owed' = owed \cup {<<Main, at[p]>>}
    /\ UNCHANGED <<gateVars, size, base, gens, blockGen, gen, conn, dialog, faulted, faults>>

\* linkSync to the canonical name; EEXIST leaves the winner there.
InstallCandidate(p) ==
    /\ do(p, "installing", "installed")
    /\ IF at[Main] = NoFile
       THEN /\ at' = [at EXCEPT ![Main] = at[p]]
            /\ owed' = owed \cup {<<Main, at[p]>>}
       ELSE UNCHANGED <<at, owed>>
    /\ UNCHANGED <<gateVars, size, base, gens, blockGen, gen, conn, dialog, faulted, faults>>

\* Nobody's transaction is running: a journal there is of one that died.
idle == \A p \in Proc : work[p] # "writing"

\* open_existing_under_gate: SQLite rolls back what a dead writer left.
connect(p, from, to) ==
    /\ at[Main] # NoFile /\ ~preflight_refuses
    /\ do(p, from, to)
    /\ conn' = [conn EXCEPT ![p] = at[Main]]
    /\ IF idle THEN /\ at' = [at EXCEPT ![Journal] = NoFile]
                    /\ owed' = owed \ {<<Journal, at[Journal]>>}
       ELSE UNCHANGED <<at, owed>>
    /\ UNCHANGED <<gateVars, size, base, gens, blockGen, gen, dialog, faulted, faults>>

Connect(p) == connect(p, "connecting", "using") \/ connect(p, "installed", "tidying")

\* Busy, damaged, of another application, of a newer version, no space: for whatever
\* reason.  A candidate that has been built stays.
OpenFails(p) ==
    /\ work[p] \in {"building", "installing", "connecting", "installed"}
    /\ giveUp(p)

\* remove_exact_candidate, for the candidate and its snapshot.  A candidate that lost may
\* be kept, and that a removal fails does not matter.
Tidy(p) ==
    /\ do(p, "tidying", "using")
    /\ \/ /\ at' = [at EXCEPT ![p] = NoFile]
          /\ owed' = owed \ {<<p, at[p]>>}
       \/ UNCHANGED <<at, owed>>
    /\ UNCHANGED <<gateVars, size, base, gens, blockGen, gen, conn, dialog, faulted, faults>>

BeginWrite(p) ==
    /\ idle
    /\ do(p, "using", "writing")
    /\ size[conn[p]] < MaxSize
    /\ \E f \in File :
        /\ unused(f)
        /\ at' = [at EXCEPT ![Journal] = f]
        /\ size' = [size EXCEPT ![f] = 0]
        /\ base' = [base EXCEPT ![f] = conn[p]]
        /\ owed' = (owed \ {<<Journal, at[Journal]>>}) \cup {<<Journal, f>>}
    /\ UNCHANGED <<gateVars, gens, blockGen, gen, conn, dialog, faulted, faults>>

Commit(p) ==
    /\ do(p, "writing", "using")
    /\ size' = [size EXCEPT ![conn[p]] = @ + 1]
    /\ at' = [at EXCEPT ![Journal] = NoFile]
    /\ owed' = owed \ {<<Journal, at[Journal]>>}
    /\ UNCHANGED <<gateVars, base, gens, blockGen, gen, conn, dialog, faulted, faults>>

Close(p) ==
    /\ CloseReader(p)
    /\ do(p, "using", "none")
    /\ conn' = [conn EXCEPT ![p] = NoFile]
    /\ UNCHANGED <<at, size, base, gens, blockGen, gen, dialog, faulted, owed, faults>>
-----------------------------------------------------------------------------
(* Moving the set aside: preserve_desktop_state_database, *)
(* preserve_sqlite_basename_set, resume_sqlite_basename_preservation *)

\* The recovery action of the dialog, or a caller that attests nothing.
BeginPreserve(p) ==
    /\ IF Desktop THEN p \in dialog /\ Attest(p) ELSE BeginExclusive(p)
    /\ faulted' = faulted \ {p}
    /\ UNCHANGED <<at, size, base, gens, blockGen, work, gen, conn, dialog, owed, faults>>

ClearResidue(p) == ClearingStep(p) /\ UNCHANGED setVars

TakeGate(p) ==
    /\ work[p] # "failed"
    /\ WriteIntent(p) \/ ReclaimToken(p) \/ Drain(p)
    /\ UNCHANGED setVars

\* A holder's step on the directory g that changes nothing else.
onDirectory(p, from, to, g, directory) ==
    /\ pc[p] = "drained"
    /\ do(p, from, to)
    /\ gen' = [gen EXCEPT ![p] = g]
    /\ gens' = [gens EXCEPT ![g] = directory]
    /\ UNCHANGED <<gateVars, at, size, base, blockGen, conn, dialog, faulted, owed, faults>>

\* find_unblocked_preservation: manifests whose move has no blockade.
orphans == {g \in Gen : gens[g].state = "moving"}

untouched(g) ==
    \A n \in DOMAIN gens[g].members :
        LET m == gens[g].members[n]
        IN  ~m.installed /\ ~m.sourceRemoved /\ matches(at[n], m) /\ gens[g].target[n] = NoFile

\* find_empty_pre_manifest_preservation
empties == {g \in Gen : gens[g].state = "empty"}

canResume   == block = "valid" /\ (gens[blockGen].state = "moving" \/ preserved(blockGen))
canStart    == block = "absent" /\ incomplete = {}
canAdopt(g) == block = "absent" /\ orphans = {g} /\ untouched(g)
canFill(g)  == block = "absent" /\ orphans = {} /\ incomplete = {g} /\ empties = {g}

Resume(p) ==
    /\ canResume
    /\ onDirectory(p, "none", IF preserved(blockGen) THEN "unblocking" ELSE "moving",
                   blockGen, gens[blockGen])

StartOver(p) ==
    /\ canStart
    /\ \E g \in Gen :
        /\ gens[g].state = "absent"
        /\ onDirectory(p, "none", "manifest", g, [NoDirectory EXCEPT !.state = "empty"])

Adopt(p) ==
    \E g \in Gen :
        \/ canAdopt(g) /\ onDirectory(p, "none", "blockade", g, gens[g])
        \/ canFill(g) /\ onDirectory(p, "none", "manifest", g, gens[g])

CreateManifest(p) ==
    onDirectory(p, "manifest", "describing", gen[p], [gens[gen[p]] EXCEPT !.state = "torn"])

\* Mutant: the members move before there is a blockade.
WriteManifest_unblocked(p) ==
    LET members == [n \in {m \in Name : at[m] # NoFile} |->
                        [id |-> at[n], size |-> size[at[n]],
                         installed |-> FALSE, sourceRemoved |-> FALSE]]
    IN  onDirectory(p, "describing", "moving", gen[p],
                    [gens[gen[p]] EXCEPT !.state = "moving", !.members = members])

\* initial_recovery_manifest of inventory_preservable_members
WriteManifest(p) ==
    LET members == [n \in {m \in Name : at[m] # NoFile} |->
                        [id |-> at[n], size |-> size[at[n]],
                         installed |-> FALSE, sourceRemoved |-> FALSE]]
    IN  onDirectory(p, "describing", "blockade", gen[p],
                    [gens[gen[p]] EXCEPT !.state = "moving", !.members = members])

CreateBlockade(p) ==
    /\ work[p] = "blockade"
    /\ CreateBlock(p)
    /\ UNCHANGED setVars

\* Mutant: the blockade does not say where the members are going.
WriteBlockade_anonymous(p) ==
    /\ WriteBlock(p)
    /\ do(p, "blockade", "moving")
    /\ UNCHANGED <<at, size, base, gens, blockGen, gen, conn, dialog, faulted, owed, faults>>

WriteBlockade(p) ==
    /\ WriteBlock(p)
    /\ do(p, "blockade", "moving")
    /\ blockGen' = gen[p]
    /\ UNCHANGED <<at, size, base, gens, gen, conn, dialog, faulted, owed, faults>>

-----------------------------------------------------------------------------
(* advance_preservation *)

left(g) == {n \in DOMAIN gens[g].members : ~gens[g].members[n].sourceRemoved}

\* The members move in the order of the inventory.
rank(n) == CASE n = Main -> 0 [] n = Journal -> 1 [] n = Wal -> 2 [] OTHER -> 3

current(g) == CHOOSE n \in left(g) : \A k \in left(g) : rank(n) <= rank(k)

\* The member that a mover p is at: its record, its source and its target.
atMember(p) == pc[p] = "drained" /\ work[p] = "moving" /\ left(gen[p]) # {}
member(p)   == gens[gen[p]].members[current(gen[p])]
source(p)   == at[current(gen[p])]
target(p)   == gens[gen[p]].target[current(gen[p])]

advance(p, directory) == onDirectory(p, "moving", "moving", gen[p], directory)

LinkMember(p) ==
    /\ atMember(p)
    /\ ~member(p).installed /\ target(p) = NoFile /\ matches(source(p), member(p))
    /\ advance(p, [gens[gen[p]] EXCEPT !.target[current(gen[p])] = source(p)])

RecordInstalled(p) ==
    /\ atMember(p)
    /\ ~member(p).installed /\ matches(target(p), member(p))
    /\ advance(p, [gens[gen[p]] EXCEPT !.members[current(gen[p])].installed = TRUE])

\* Mutant: a member goes before it is in the directory.
UnlinkMember_first(p) ==
    /\ atMember(p)
    /\ matches(source(p), member(p))
    /\ at' = [at EXCEPT ![current(gen[p])] = NoFile]
    /\ UNCHANGED <<gateVars, size, base, gens, blockGen, work, gen, conn, dialog, faulted, owed, faults>>

UnlinkMember(p) ==
    /\ atMember(p)
    /\ member(p).installed
    /\ matches(target(p), member(p)) /\ matches(source(p), member(p))
    /\ at' = [at EXCEPT ![current(gen[p])] = NoFile]
    /\ UNCHANGED <<gateVars, size, base, gens, blockGen, work, gen, conn, dialog, faulted, owed, faults>>

RecordRemoved(p) ==
    /\ atMember(p)
    /\ member(p).installed /\ matches(target(p), member(p)) /\ source(p) = NoFile
    /\ advance(p, [gens[gen[p]] EXCEPT !.members[current(gen[p])].sourceRemoved = TRUE])

validates(g) ==
    \A n \in DOMAIN gens[g].members :
        matches(gens[g].target[n], gens[g].members[n]) /\ at[n] = NoFile

CompleteManifest(p) ==
    /\ work[p] = "moving" /\ left(gen[p]) = {} /\ validates(gen[p])
    /\ onDirectory(p, "moving", "unblocking", gen[p],
                   [gens[gen[p]] EXCEPT !.state = "complete"])

Unblock(p) ==
    /\ RemoveBlock(p)
    /\ do(p, "unblocking", "finishing")
    /\ blockGen' = NoGen
    /\ UNCHANGED <<at, size, base, gens, gen, conn, dialog, faulted, owed, faults>>

Finish(p) ==
    /\ Release(p)
    /\ do(p, "finishing", "none")
    /\ gen' = [gen EXCEPT ![p] = NoGen]
    /\ dialog' = dialog \ {p}
    /\ UNCHANGED <<at, size, base, gens, blockGen, conn, faulted, owed, faults>>

-----------------------------------------------------------------------------
(* Refusals, failures and deaths *)

surveyRefuses == ~canResume /\ ~canStart /\ \A g \in Gen : ~canAdopt(g) /\ ~canFill(g)

memberRefuses(p) ==
    \/ ~member(p).installed /\ ~matches(target(p), member(p))
       /\ (target(p) # NoFile \/ ~matches(source(p), member(p)))
    \/ member(p).installed
       /\ \/ ~matches(target(p), member(p))
          \/ source(p) # NoFile /\ ~matches(source(p), member(p))

refuses(p) ==
    \/ work[p] = "none" /\ surveyRefuses
    \/ atMember(p) /\ memberRefuses(p)
    \/ work[p] = "moving" /\ left(gen[p]) = {} /\ ~validates(gen[p])

fail(p) ==
    /\ work' = [work EXCEPT ![p] = "failed"]
    /\ UNCHANGED <<gateVars, at, size, base, gens, blockGen, gen, conn, dialog, owed>>

\* What is found is not what the preservation can continue from: it throws.
Refuse(p) ==
    /\ pc[p] = "drained" /\ refuses(p)
    /\ fail(p)
    /\ UNCHANGED <<faulted, faults>>

\* A file operation throws once there is an intent: no space, an input or output error.
Fault(p) ==
    /\ pc[p] \in Holding \cup {"draining"} /\ work[p] \notin {"failed", "finishing"}
    /\ faults < MaxFaults
    /\ fail(p)
    /\ faulted' = faulted \cup {p}
    /\ faults' = faults + 1

\* The finally block: the intent goes unless there is a valid blockade; with a torn one
\* the release throws.
StopFailed(p) ==
    /\ do(p, "failed", "none")
    /\ IF block = "absent" THEN Release(p) ELSE Crash(p)
    /\ gen' = [gen EXCEPT ![p] = NoGen]
    /\ UNCHANGED <<at, size, base, gens, blockGen, conn, dialog, faulted, owed, faults>>

\* The process dies; the system closes what it was connected to.
Die(p) ==
    /\ faults < MaxFaults
    /\ faults' = faults + 1
    /\ Crash(p)
    /\ work' = [work EXCEPT ![p] = "none"]
    /\ gen' = [gen EXCEPT ![p] = NoGen]
    /\ conn' = [conn EXCEPT ![p] = NoFile]
    /\ dialog' = dialog \ {p}
    /\ UNCHANGED <<at, size, base, gens, blockGen, faulted, owed>>

-----------------------------------------------------------------------------

OpenStep(p) ==
    \/ Open(p) \/ OpenRefused(p) \/ PassGate(p) \/ RefuseInventory(p) \/ Inventory(p)
    \/ BuildCandidate(p) \/ InstallCandidate(p) \/ Connect(p) \/ OpenFails(p) \/ Tidy(p)
    \/ BeginWrite(p) \/ Commit(p) \/ Close(p)

PreserveStep(p) ==
    \/ BeginPreserve(p) \/ ClearResidue(p) \/ TakeGate(p)
    \/ Resume(p) \/ StartOver(p) \/ Adopt(p)
    \/ CreateManifest(p) \/ WriteManifest(p) \/ CreateBlockade(p) \/ WriteBlockade(p)
    \/ LinkMember(p) \/ RecordInstalled(p) \/ UnlinkMember(p) \/ RecordRemoved(p)
    \/ CompleteManifest(p) \/ Unblock(p) \/ Finish(p)
    \/ Refuse(p) \/ StopFailed(p)

Next == \E p \in Proc : OpenStep(p) \/ PreserveStep(p) \/ Fault(p) \/ Die(p)

Spec == Init /\ [][Next]_vars

-----------------------------------------------------------------------------
(* Properties *)

\* Whatever dies or fails between any two file operations, every file of the set is
\* under its name or, under the same name, in a recovery directory: nothing is lost and
\* nothing is overwritten, except what its owner removes.
NothingLost ==
    \A pair \in owed : \/ at[pair[1]] = pair[2]
                       \/ \E g \in Gen : gens[g].target[pair[1]] = pair[2]

\* A set of which something has moved is under a blockade that names its directory, so
\* that no open takes what is left for a whole set and the next attempt continues it.
HalfMovedIsBlocked ==
    \A g \in Gen :
        gens[g].state = "moving" /\ (\E n \in Name : gens[g].target[n] # NoFile)
            => block = "valid" /\ blockGen = g

\* A process is connected to the file that has the canonical name: nobody's database is
\* moved out from under it, and two first runs end in one database.
ConnectedToCanonical ==
    \A p \in Proc : conn[p] # NoFile => conn[p] = at[Main]

\* A process connects to no main file beside the journal or wal of another one, which
\* SQLite would replay into it: not after a failed move, not on a first run.
NoForeignReplay ==
    [][\A p \in Proc : conn'[p] \notin {NoFile, conn[p]} =>
        \A n \in {Journal, Wal} : at[n] # NoFile => base[at[n]] = conn'[p]]_vars

\* A manifest that a failure left torn, or whose members were written to after a failed
\* attempt had let go of the gate, is what a preservation cannot continue from.
deadEnd(g) ==
    \/ gens[g].state = "torn"
    \/ gens[g].state = "moving" /\ block = "absent" /\ ~untouched(g)

\* A preservation in which every file operation succeeds completes, from whatever
\* earlier attempts left but for those manifests.
OnlyDeadEndsRefuse ==
    \A p \in Proc : work[p] = "failed" /\ p \notin faulted => \E g \in Gen : deadEnd(g)

\* state-recovery-dialog.ts:69: the preserve action resumes what did not finish.
PreserveResumes == \A p \in Proc : work[p] = "failed" => p \in faulted
=============================================================================
