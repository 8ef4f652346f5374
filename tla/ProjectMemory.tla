--------------------------- MODULE ProjectMemory ---------------------------
(***************************************************************************)
(* The project memory of src/src/project_memory.rs: the index of the       *)
(* workspace, which /index builds and a turn that changed files refreshes, *)
(* and the notes of /remember and /forget.                                 *)
(*                                                                         *)
(* A build walks the tree while editors, commands and other programs       *)
(* change it, reads a file's size and time before its contents, and takes  *)
(* over the previous entry where size and time (in seconds) are the same.  *)
(* The notes are a file of lines that processes append to and rewrite; a   *)
(* line and its end are two writes.                                        *)
(***************************************************************************)
EXTENDS Naturals, FiniteSets, Sequences, SequencesExt

CONSTANTS
    PmNames,        \* files of the workspace, secrets and skipped directories left out
    PmTexts,        \* what a file may hold: [id, size, binary]
    MaxIndexed,     \* project_memory.max_file_bytes
    MaxSeconds,     \* bound on the clock
    NoIndex, TornIndex,
    PmUsers,        \* processes that keep notes
    MaxNotes,       \* bound on the notes made
    PmEnd           \* the end of a line

ASSUME MemoryAssumption == MaxSeconds \in Nat /\ MaxNotes \in Nat /\ PmEnd \notin 1..MaxNotes

VARIABLES
    pmFiles,    \* what each file of the tree holds and since when
    pmNow,      \* the time in seconds
    pmIndex,    \* the index file: NoIndex, TornIndex or an entry per indexed file
    pmBuild,    \* a build in progress, or Idle
    pmTwice,    \* history: files that changed twice within a second
    pmCalm,     \* history: no file has changed since the build in progress, or the last, began
    pmNotes,    \* the notes file: notes and line ends
    pmDoing,    \* what each process is doing with the notes
    pmSaid,     \* history: notes reported as remembered
    pmCrossed   \* history: notes that were forgotten, or whose line met an
                \* unfinished line or a rewrite that had not seen it

pmIndexVars == <<pmFiles, pmNow, pmIndex, pmBuild, pmTwice, pmCalm>>
pmNoteVars == <<pmNotes, pmDoing, pmSaid, pmCrossed>>
pmVars == <<pmIndexVars, pmNoteVars>>

Idle == <<>>
Gone == [text |-> Idle, since |-> 0]

IndexInit ==
    /\ pmFiles \in [PmNames -> {Gone} \cup [text : PmTexts, since : {0}]]
    /\ pmNow = 0 /\ pmIndex = NoIndex /\ pmBuild = Idle
    /\ pmTwice = {} /\ pmCalm = FALSE

NotesInit ==
    /\ pmNotes = <<>> /\ pmSaid = {} /\ pmCrossed = {}
    /\ pmDoing = [u \in PmUsers |-> Idle]

\* --- the tree

SecondPasses ==
    /\ pmNow < MaxSeconds /\ pmNow' = pmNow + 1
    /\ UNCHANGED <<pmFiles, pmIndex, pmBuild, pmTwice, pmCalm, pmNoteVars>>

\* A file is written, created or removed, by whoever.
FileChanges(f) ==
    /\ \E file \in {Gone} \cup [text : PmTexts, since : {pmNow}] :
            file # pmFiles[f] /\ pmFiles' = [pmFiles EXCEPT ![f] = file]
    /\ pmTwice' = IF pmFiles[f] # Gone /\ pmFiles[f].since = pmNow
                  THEN pmTwice \cup {f} ELSE pmTwice
    /\ pmCalm' = FALSE
    /\ UNCHANGED <<pmNow, pmIndex, pmBuild, pmNoteVars>>

\* --- the index

Readable == pmIndex # TornIndex
Entries == IF pmIndex = NoIndex THEN <<>> ELSE pmIndex

\* is_file, max_file_bytes: files that the walk looks at.
Indexable == {f \in PmNames : pmFiles[f] # Gone /\ pmFiles[f].text.size <= MaxIndexed}

\* Size and time are what the entry says.
Matches(index, f) ==
    /\ f \in DOMAIN index
    /\ index[f].size = pmFiles[f].text.size /\ index[f].since = pmFiles[f].since

\* An index that does not parse is an error, for /index and refreshes alike.
BuildBegins ==
    /\ pmBuild = Idle /\ Readable
    /\ pmBuild' = [prev |-> Entries, todo |-> PmNames, acc |-> <<>>, at |-> Idle]
    /\ pmCalm' = TRUE
    /\ UNCHANGED <<pmFiles, pmNow, pmIndex, pmTwice, pmNoteVars>>

\* refresh_project_memory_after_write: only an index that exists is refreshed.
TurnChangedFiles == pmIndex # NoIndex /\ BuildBegins

\* The index with the entry of a file.
WithEntry(index, f, entry) ==
    [g \in DOMAIN index \cup {f} |-> IF g = f THEN entry ELSE index[g]]

\* The walk comes to a file that is gone or too large, whose entry still
\* matches, or that has to be read.
Visit(f) ==
    /\ pmBuild # Idle /\ pmBuild.at = Idle /\ f \in pmBuild.todo
    /\ pmBuild' =
         LET visited == [pmBuild EXCEPT !.todo = @ \ {f}]
         IN  IF f \notin Indexable THEN visited
             ELSE IF Matches(pmBuild.prev, f)
             THEN [visited EXCEPT !.acc = WithEntry(@, f, pmBuild.prev[f])]
             ELSE [visited EXCEPT !.at = [name |-> f, size |-> pmFiles[f].text.size,
                                          since |-> pmFiles[f].since]]
    /\ UNCHANGED <<pmFiles, pmNow, pmIndex, pmTwice, pmCalm, pmNoteVars>>

\* Mutant: size and time are looked up after the contents were read.
Stamp(at) == [size |-> pmFiles[at.name].text.size, since |-> pmNow]

\* What the entry says of the file is what was looked up before.
StampOf(at) == [size |-> at.size, since |-> at.since]

\* A file that cannot be read, or is not text, gets no entry.
ReadFile ==
    /\ pmBuild # Idle /\ pmBuild.at # Idle
    /\ LET at == pmBuild.at
           file == pmFiles[at.name]
       IN  pmBuild' = [pmBuild EXCEPT !.at = Idle, !.acc =
             IF file = Gone \/ file.text.binary THEN @
             ELSE WithEntry(@, at.name, [text |-> file.text, size |-> StampOf(at).size,
                                         since |-> StampOf(at).since])]
    /\ UNCHANGED <<pmFiles, pmNow, pmIndex, pmTwice, pmCalm, pmNoteVars>>

\* save_project_index writes in place: a crash leaves half an index.
SaveIndex ==
    /\ pmBuild # Idle /\ pmBuild.todo = {} /\ pmBuild.at = Idle
    /\ pmIndex' \in {pmBuild.acc, TornIndex} /\ pmBuild' = Idle
    /\ UNCHANGED <<pmFiles, pmNow, pmTwice, pmCalm, pmNoteVars>>

BuildIsKilled ==
    /\ pmBuild # Idle /\ pmBuild' = Idle /\ pmCalm' = FALSE
    /\ UNCHANGED <<pmFiles, pmNow, pmIndex, pmTwice, pmNoteVars>>

ClearIndex ==
    /\ pmBuild = Idle /\ pmIndex # NoIndex /\ pmIndex' = NoIndex
    /\ UNCHANGED <<pmFiles, pmNow, pmBuild, pmTwice, pmCalm, pmNoteVars>>

IndexNext ==
    \/ SecondPasses \/ BuildBegins \/ TurnChangedFiles \/ ReadFile
    \/ SaveIndex \/ BuildIsKilled \/ ClearIndex
    \/ \E f \in PmNames : FileChanges(f) \/ Visit(f)

\* project_index_freshness, is_fresh: files without an entry, entries without
\* a file, and entries whose file has another hash.
Freshness ==
    LET index == Entries
        stale == {f \in Indexable \cap DOMAIN index :
                    ~Matches(index, f) /\ pmFiles[f].text # index[f].text}
    IN  [missing |-> Indexable \ DOMAIN index, deleted |-> DOMAIN index \ Indexable,
         stale |-> stale]

IsFresh == LET report == Freshness
           IN  report.missing \cup report.deleted \cup report.stale = {}

Built == pmIndex \notin {NoIndex, TornIndex}

\* An index that /index status calls fresh holds every file as it is, except
\* files that changed twice within the second that their entry names, however
\* edits fell between a build's look at a file and its reading.
FreshIsTrue ==
    Built /\ IsFresh =>
        \A f \in Indexable \ pmTwice : f \in DOMAIN pmIndex /\ pmIndex[f].text = pmFiles[f].text

\* In a tree without binary files, an index that was built while nothing
\* changed is fresh until something does.
BuiltIsFresh ==
    Built /\ pmBuild = Idle /\ pmCalm
        /\ (\A f \in Indexable : ~pmFiles[f].text.binary) => IsFresh

\* --- the notes

\* Lines that parse: a single note between two line ends.
Parsed(file) ==
    {file[i] : i \in {j \in DOMAIN file :
        /\ file[j] # PmEnd
        /\ j = 1 \/ file[j - 1] = PmEnd
        /\ j = Len(file) \/ file[j + 1] = PmEnd}}

LineOpen == pmNotes # <<>> /\ Last(pmNotes) # PmEnd
NotesMade == {n \in 1..MaxNotes : n \in Range(pmNotes) \cup pmSaid \cup pmCrossed}

\* append_project_note: the line, then its end.
NoteBegins(u) ==
    LET n == Cardinality(NotesMade) + 1
    IN  /\ pmDoing[u] = Idle /\ n <= MaxNotes /\ n \notin NotesMade
        /\ pmNotes' = Append(pmNotes, n)
        /\ pmDoing' = [pmDoing EXCEPT ![u] = [what |-> "append", note |-> n]]
        /\ pmCrossed' = IF LineOpen THEN pmCrossed \cup {n, Last(pmNotes)} ELSE pmCrossed
        /\ UNCHANGED <<pmSaid, pmIndexVars>>

NoteEnds(u) ==
    /\ pmDoing[u] # Idle /\ pmDoing[u].what = "append"
    /\ pmNotes' = Append(pmNotes, PmEnd)
    /\ pmSaid' = pmSaid \cup {pmDoing[u].note}
    /\ pmDoing' = [pmDoing EXCEPT ![u] = Idle]
    /\ UNCHANGED <<pmCrossed, pmIndexVars>>

ForgetLoads(u, n) ==
    /\ pmDoing[u] = Idle /\ n \in Parsed(pmNotes)
    /\ pmDoing' = [pmDoing EXCEPT ![u] = [what |-> "forget", note |-> n, held |-> pmNotes]]
    /\ UNCHANGED <<pmNotes, pmSaid, pmCrossed, pmIndexVars>>

\* Every line that parses but the one that is forgotten, each with its end.
KeptLines(file, n) ==
    LET kept[i \in 0..Len(file)] ==
          IF i = 0 THEN <<>>
          ELSE IF file[i] \in Parsed(file) \ {n} THEN kept[i - 1] \o <<file[i], PmEnd>>
          ELSE kept[i - 1]
    IN  kept[Len(file)]

\* forget_project_note writes what it loaded, whatever was appended since;
\* an open line of another process is lost with it.
ForgetWrites(u) ==
    LET doing == pmDoing[u] IN
        /\ doing # Idle /\ doing.what = "forget"
        /\ pmNotes' = KeptLines(doing.held, doing.note)
        /\ pmCrossed' = pmCrossed \cup {doing.note} \cup
             {m \in Range(pmNotes) : m # PmEnd /\ m \notin Parsed(doing.held)}
        /\ pmDoing' = [pmDoing EXCEPT ![u] = Idle]
        /\ UNCHANGED <<pmSaid, pmIndexVars>>

ForgetAll(u) ==
    /\ pmDoing[u] = Idle /\ pmNotes # <<>>
    /\ pmNotes' = <<>>
    /\ pmCrossed' = pmCrossed \cup {m \in Range(pmNotes) : m # PmEnd}
    /\ UNCHANGED <<pmDoing, pmSaid, pmIndexVars>>

\* A crash leaves the line it was writing without its end.
UserIsKilled(u) ==
    /\ pmDoing[u] # Idle /\ pmDoing' = [pmDoing EXCEPT ![u] = Idle]
    /\ UNCHANGED <<pmNotes, pmSaid, pmCrossed, pmIndexVars>>

NotesNext ==
    \E u \in PmUsers :
        \/ NoteBegins(u) \/ NoteEnds(u) \/ ForgetWrites(u) \/ ForgetAll(u) \/ UserIsKilled(u)
        \/ \E n \in 1..MaxNotes : ForgetLoads(u, n)

\* A note that was reported as remembered is read back until it is forgotten,
\* unless its line met a line that had no end yet or a rewrite that had not
\* seen it: whatever else is forgotten, appended or killed.
NotesKept == pmSaid \ pmCrossed \subseteq Parsed(pmNotes)

\* The map that goes with a prompt is that of the files, and no note is lost.
MemoryTrue == FreshIsTrue /\ BuiltIsFresh /\ NotesKept

PmInit == IndexInit /\ NotesInit
PmNext == IndexNext \/ NotesNext
PmSpec == PmInit /\ [][PmNext]_pmVars

=============================================================================
