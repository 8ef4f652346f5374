----------------------------- MODULE TrustStore -----------------------------
(***************************************************************************)
(* Which commands of a project's configuration may run: MCP servers        *)
(* (src/src/mcp.rs), extensions (extensions.rs) and hooks (hooks/), each   *)
(* kind with a trust file of its own that all processes of the user share. *)
(*                                                                         *)
(* A process reads the configuration once, when it starts, and runs what   *)
(* the trust file lists with the hash of what it read.  /mcp trust,        *)
(* /extensions trust and /hooks trust load the file, add the hash of what  *)
(* the process holds, and write it back.  The configuration is a file of   *)
(* the repository and changes under the processes.                         *)
(***************************************************************************)
CONSTANTS
    Items,      \* configured names
    Versions,   \* what an entry of the configuration may say
    Procs,      \* processes of the user
    None,       \* no value
    TornFile    \* a file that does not parse

VARIABLES
    trKind,      \* "server" or "hook"
    trConfig,    \* the configuration in the repository
    trFile,      \* the trust file
    trSeen,      \* the configuration each process holds; None: not running
    trHeld,      \* the trust file a process has loaded to change; None: none
    trOn,        \* items whose commands a process may run
    trApproved   \* history: what the user has approved

trVars == <<trKind, trConfig, trFile, trSeen, trHeld, trOn, trApproved>>

\* HookState; a server's entry is its hash alone.
Entry == [hash : Versions \cup {None}, enabled : BOOLEAN]
Blank == [hash |-> None, enabled |-> TRUE]
NoTrust == [i \in Items |-> Blank]

\* What is no value, and what is no file, is none.
ASSUME TrustAssumption ==
    /\ None \notin Versions /\ None \notin [Items -> Versions] /\ None \notin [Items -> Entry]
    /\ TornFile \notin [Items -> Entry]

TrustInit ==
    /\ trKind \in {"server", "hook"}
    /\ trConfig \in [Items -> Versions]
    /\ trFile = NoTrust
    /\ trSeen = [p \in Procs |-> None] /\ trHeld = [p \in Procs |-> None]
    /\ trOn = [p \in Procs |-> {}] /\ trApproved = {}

\* A file that does not parse is an empty one.
Loaded == IF trFile = TornFile THEN NoTrust ELSE trFile

\* configured_trust_from, discover_hooks, status_from_state.
Trusted(file, config, i) == file[i].enabled /\ file[i].hash = config[i]

Edit(i, v) ==
    /\ trConfig[i] # v /\ trConfig' = [trConfig EXCEPT ![i] = v]
    /\ UNCHANGED <<trKind, trFile, trSeen, trHeld, trOn, trApproved>>

\* Servers start with the process; hooks run from then on.
ProcessStarts(p) ==
    /\ trSeen[p] = None
    /\ trSeen' = [trSeen EXCEPT ![p] = trConfig]
    /\ trOn' = [trOn EXCEPT ![p] = {i \in Items : Trusted(Loaded, trConfig, i)}]
    /\ UNCHANGED <<trKind, trConfig, trFile, trHeld, trApproved>>

\* For hooks an unreadable file is an error, for servers an empty file.
LoadToChange(p) ==
    /\ trSeen[p] # None /\ trHeld[p] = None
    /\ trKind = "hook" => trFile # TornFile
    /\ trHeld' = [trHeld EXCEPT ![p] = Loaded]
    /\ UNCHANGED <<trKind, trConfig, trFile, trSeen, trOn, trApproved>>

Save(p, i, entry) ==
    /\ trHeld[p] # None
    /\ trFile' = [trHeld[p] EXCEPT ![i] = entry]
    /\ trHeld' = [trHeld EXCEPT ![p] = None]

\* What the user reviewed is what the process holds.
Reviewed(p, i) == trSeen[p][i]

\* trust_server, trust_extension, trust_hook: what is trusted also runs from now on.
Trust(p, i) ==
    /\ trSeen[p] # None /\ Save(p, i, [hash |-> Reviewed(p, i), enabled |-> TRUE])
    /\ trOn' = [trOn EXCEPT ![p] = @ \cup {i}]
    /\ trApproved' = trApproved \cup {<<i, trSeen[p][i]>>}
    /\ UNCHANGED <<trKind, trConfig, trSeen>>

\* Mutant: enabling a hook trusts it.
EnableTrusts(p, i, on) ==
    /\ trKind = "hook" /\ trSeen[p] # None /\ trHeld[p] # None
    /\ LET entry == [trHeld[p][i] EXCEPT !.enabled = on] IN
          /\ Save(p, i, entry)
          /\ trOn' = [trOn EXCEPT ![p] = IF on THEN @ \cup {i} ELSE @ \ {i}]
    /\ UNCHANGED <<trKind, trConfig, trSeen, trApproved>>

\* set_hook_enabled keeps the hash of the file and judges it anew.
SetEnabled(p, i, on) ==
    /\ trKind = "hook" /\ trSeen[p] # None /\ trHeld[p] # None
    /\ LET entry == [trHeld[p][i] EXCEPT !.enabled = on] IN
          /\ Save(p, i, entry)
          /\ trOn' = [trOn EXCEPT ![p] =
                IF Trusted([trHeld[p] EXCEPT ![i] = entry], trSeen[p], i)
                THEN @ \cup {i} ELSE @ \ {i}]
    /\ UNCHANGED <<trKind, trConfig, trSeen, trApproved>>

\* A process that dies inside fs::write leaves a torn file.
Exit(p) ==
    /\ trSeen[p] # None
    /\ trFile' \in {trFile} \cup IF trHeld[p] # None THEN {TornFile} ELSE {}
    /\ trSeen' = [trSeen EXCEPT ![p] = None] /\ trHeld' = [trHeld EXCEPT ![p] = None]
    /\ trOn' = [trOn EXCEPT ![p] = {}]
    /\ UNCHANGED <<trKind, trConfig, trApproved>>

TrustNext ==
    \/ \E i \in Items, v \in Versions : Edit(i, v)
    \/ \E p \in Procs :
        \/ ProcessStarts(p) \/ LoadToChange(p) \/ Exit(p)
        \/ \E i \in Items : Trust(p, i) \/ \E on \in BOOLEAN : SetEnabled(p, i, on)

TrustSpec == TrustInit /\ [][TrustNext]_trVars

-----------------------------------------------------------------------------
(* Properties. *)

\* Every variable has its type.
TrustTypeOK ==
    /\ trKind \in {"server", "hook"} /\ trConfig \in [Items -> Versions]
    /\ trFile \in [Items -> Entry] \cup {TornFile}
    /\ trSeen \in [Procs -> [Items -> Versions] \cup {None}]
    /\ trHeld \in [Procs -> [Items -> Entry] \cup {None}]
    /\ trOn \in [Procs -> SUBSET Items] /\ trApproved \in SUBSET (Items \X Versions)

\* No command runs that the user did not approve in the very version that runs:
\* not one that changed since, or between the review and the answer, nor by way
\* of a file another process wrote, lost or tore.
RunsAsApproved ==
    \A p \in Procs : \A i \in trOn[p] :
        trSeen[p] # None /\ <<i, trSeen[p][i]>> \in trApproved

\* The trust file, and every copy of it, holds approvals only.
Backed(file) == \A i \in Items : file[i].hash # None => <<i, file[i].hash>> \in trApproved
TrustNeverInvented ==
    /\ trFile # TornFile => Backed(trFile)
    /\ \A p \in Procs : trHeld[p] # None => Backed(trHeld[p])

\* Nothing is trusted that was not reviewed.
TrustSound == TrustTypeOK /\ RunsAsApproved /\ TrustNeverInvented

=============================================================================
