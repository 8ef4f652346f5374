----------------------------- MODULE Scorecard -----------------------------
(***************************************************************************)
(* The scorecard's ledger (src/src/scorecard.rs): a file of JSON lines to   *)
(* which every process of the user appends the turns it ran, the PRs it    *)
(* closed and what GitHub said of them later.  Nothing is locked and an    *)
(* event and its end of line are two writes.  A close counts the turns of  *)
(* the branch that are younger than its last close.                        *)
(***************************************************************************)
EXTENDS Naturals, Sequences, FiniteSets, SequencesExt

CONSTANTS
    Writers,     \* processes
    Branches,    \* work units
    Eol,         \* the end of a line
    MaxStamps,   \* bound on time stamps taken
    MaxResets    \* bound on /scorecard reset

\* What a line of a ledger may hold, and Eol is none of them.
ScEvents == [kind : {"none", "turn", "pr", "check", "reset"}, at : Nat, branch : Branches, about : SUBSET Nat]

ASSUME ScAssumption == Branches # {} /\ Eol \notin ScEvents

VARIABLES
    scFiles,     \* ledgers: the last one has the name, the others were removed
    scBackups,   \* copies made by resets
    scStamps,    \* time stamps taken: the clock
    scAt,        \* where each process is
    scEvent,     \* the event it is about to write
    scFd,        \* the ledger it opened
    scHurt       \* history: events whose operation overlapped another, died or
                 \* came first after a torn line

scVars == <<scFiles, scBackups, scStamps, scAt, scEvent, scFd, scHurt>>
scFileVars == <<scFiles, scBackups>>

\* about: the turns a close counted, or the PR a verification is of.
NoEvent == [kind |-> "none", at |-> 0, branch |-> CHOOSE b \in Branches : TRUE, about |-> {}]

ScInit ==
    /\ scFiles = <<<<>>>> /\ scBackups = {} /\ scStamps = 0
    /\ scAt = [p \in Writers |-> "idle"] /\ scEvent = [p \in Writers |-> NoEvent]
    /\ scFd = [p \in Writers |-> 0] /\ scHurt = {}

Ledger == Last(scFiles)

\* read_events: a line that is not exactly one event is skipped.
EventsOf(ledger) ==
    {ledger[i] : i \in {j \in DOMAIN ledger :
        /\ ledger[j] # Eol
        /\ j = 1 \/ ledger[j - 1] = Eol
        /\ j = Len(ledger) \/ ledger[j + 1] = Eol}}
Events == EventsOf(Ledger)

Of(kind, branch) == {e \in Events : e.kind = kind /\ e.branch = branch}

\* Mutant: what was closed stays open.
OpenForever(branch) == Of("turn", branch)

\* open_summary_for_unit, open_sessions_for_unit
OpenTurns(branch) == {t \in Of("turn", branch) : \A c \in Of("pr", branch) : t.at > c.at}

-----------------------------------------------------------------------------

\* Whoever begins while another is at it overlaps with it, and the other with him.
ScBegin(p, kind, branch, about, to) ==
    LET others == {q \in Writers \ {p} : scAt[q] # "idle"} IN
    /\ scAt[p] = "idle" /\ scAt' = [scAt EXCEPT ![p] = to]
    /\ scStamps < MaxStamps /\ scStamps' = scStamps + 1
    /\ scEvent' = [scEvent EXCEPT ![p] =
          [kind |-> kind, at |-> scStamps + 1, branch |-> branch, about |-> about]]
    /\ scHurt' = scHurt \cup (IF others = {} THEN {}
                              ELSE {scStamps + 1} \cup {scEvent[q].at : q \in others})

ScGoto(p, from, to) == scAt[p] = from /\ scAt' = [scAt EXCEPT ![p] = to]
ScOver(p) ==
    /\ scAt' = [scAt EXCEPT ![p] = "idle"] /\ scEvent' = [scEvent EXCEPT ![p] = NoEvent]
    /\ scFd' = [scFd EXCEPT ![p] = 0]

\* record_turn
RecordTurn(p, branch) ==
    /\ ScBegin(p, "turn", branch, {}, "open")
    /\ UNCHANGED <<scFileVars, scFd>>

\* close_pr_at_path: the time of a close is taken before the ledger is read ...
ClosePr(p, branch) ==
    /\ ScBegin(p, "pr", branch, {}, "read")
    /\ UNCHANGED <<scFileVars, scFd>>

\* ... and without open turns there is nothing to close.
ReadOpenTurns(p) ==
    LET open == {t.at : t \in OpenTurns(scEvent[p].branch)} IN
    /\ scAt[p] = "read"
    /\ IF open = {} THEN ScOver(p)
       ELSE /\ ScGoto(p, "read", "open")
            /\ scEvent' = [scEvent EXCEPT ![p].about = open] /\ UNCHANGED scFd
    /\ UNCHANGED <<scFileVars, scStamps, scHurt>>

\* verify_recent_pr_at_path: the PR is picked, GitHub asked, the answer appended.
Verify(p, pr) ==
    /\ pr \in Events /\ pr.kind = "pr"
    /\ ScBegin(p, "check", pr.branch, {pr.at}, "ask")
    /\ UNCHANGED <<scFileVars, scFd>>

Answered(p) ==
    /\ scAt[p] = "ask"
    /\ ScOver(p) \/ (ScGoto(p, "ask", "open") /\ UNCHANGED <<scEvent, scFd>>)
    /\ UNCHANGED <<scFileVars, scStamps, scHurt>>

\* append_event: the file is opened, or created, ...
OpenLedger(p) ==
    /\ ScGoto(p, "open", "write") /\ scFd' = [scFd EXCEPT ![p] = Len(scFiles)]
    /\ UNCHANGED <<scFileVars, scStamps, scEvent, scHurt>>

\* ... the event written ...
WriteEvent(p) ==
    /\ ScGoto(p, "write", "eol")
    /\ scFiles' = [scFiles EXCEPT ![scFd[p]] = Append(@, scEvent[p])]
    /\ LET ledger == scFiles[scFd[p]] IN
       scHurt' = IF ledger # <<>> /\ Last(ledger) # Eol THEN scHurt \cup {scEvent[p].at} ELSE scHurt
    /\ UNCHANGED <<scBackups, scStamps, scEvent, scFd>>

\* ... and its end of line.
WriteEol(p) ==
    /\ scAt[p] = "eol"
    /\ scFiles' = [scFiles EXCEPT ![scFd[p]] = Append(@, Eol)]
    /\ ScOver(p) /\ UNCHANGED <<scBackups, scStamps, scHurt>>

\* reset_store_at_path: the ledger is copied, then removed.
CopyLedger(p) ==
    /\ Len(scFiles) <= MaxResets
    /\ ScBegin(p, "reset", NoEvent.branch, {}, "remove")
    /\ scBackups' = scBackups \cup {Ledger}
    /\ UNCHANGED <<scFiles, scFd>>

RemoveLedger(p) ==
    /\ scAt[p] = "remove" /\ scFiles' = Append(scFiles, <<>>)
    /\ ScOver(p) /\ UNCHANGED <<scBackups, scStamps, scHurt>>

ScCrash(p) ==
    /\ scAt[p] # "idle" /\ ScOver(p)
    /\ scHurt' = scHurt \cup {scEvent[p].at}
    /\ UNCHANGED <<scFileVars, scStamps>>

ScNext ==
    \E p \in Writers :
        \/ \E b \in Branches : RecordTurn(p, b) \/ ClosePr(p, b)
        \/ \E pr \in Events : Verify(p, pr)
        \/ ReadOpenTurns(p) \/ Answered(p) \/ OpenLedger(p) \/ WriteEvent(p) \/ WriteEol(p)
        \/ CopyLedger(p) \/ RemoveLedger(p) \/ ScCrash(p)

ScSpec == ScInit /\ [][ScNext]_scVars

-----------------------------------------------------------------------------
(* Properties. *)

\* "/ship pr closes that branch as a PR unit": every turn in the ledger is counted
\* by one close of its branch or open, never both, never twice, never neither;
\* unless its record, or the close that counted it, overlapped something else.
CountedOnce ==
    \A b \in Branches : \A t \in Of("turn", b) :
        LET counted == {c \in Of("pr", b) : t.at \in c.about} IN
        {e.at : e \in counted \cup {t} \cup Of("pr", b)} \cap scHurt = {} =>
            IF t \in OpenTurns(b) THEN counted = {} ELSE Cardinality(counted) = 1

\* "malformed JSONL lines are skipped rather than allowed to break the scorecard",
\* and "reset --yes saves a timestamped backup": an event that was written is read
\* from the ledger or is in a backup of it, whatever was torn before it, unless
\* its operation overlapped another.
LedgerKept ==
    LET readable == Events \cup UNION {EventsOf(backup) : backup \in scBackups} IN
    \A i \in DOMAIN scFiles : \A e \in Range(scFiles[i]) \ {Eol} :
        e.at \notin scHurt => e \in readable

\* The ledger of the turns keeps its events, and each is counted once.
ScorecardSound == CountedOnce /\ LedgerKept

=============================================================================
