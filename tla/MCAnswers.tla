------------------------------ MODULE MCAnswers ------------------------------
(* What becomes of the answers of a model, each part by itself, for TLC: a *)
(* behaviour is that of one part, and the others stay as they began.  The  *)
(* session's part is Conversation with the session files; tests and        *)
(* verdicts are those of Verdicts, tuning and ranks those of Tuning, and    *)
(* receipts those of RouteLedger.                                          *)
EXTENDS Conversation, StreamAssembly, Approvals, FileTools, Verdicts, Tuning,
        RouteLedger, TLC

-----------------------------------------------------------------------------
(* The cut of compaction against what it is for.  The state is a transcript, *)
(* grown one message at a time: any message at all, so that Valid is         *)
(* compared with a definition of its own, and Cut is judged on every valid   *)
(* transcript of at most MaxLen messages.                                    *)

CONSTANTS CallIds,    \* ids of tool calls
          MaxLen,   \* bound: messages in a transcript
          Keeps     \* values of keep_messages

ASSUME MaxLen \in Nat /\ Keeps \subseteq Nat \ {0}

VARIABLE tcMs

Messages == {User(0)} \cup {Assistant(0, c) : c \in SUBSET CallIds}
                      \cup {ToolResult(c) : c \in CallIds}

TcInit == tcMs = << >>
TcGrow == Len(tcMs) < MaxLen /\ \E m \in Messages : tcMs' = Append(tcMs, m)

\* Pairing without a scan: the results right after an assistant message are
\* its calls, each once, and a result follows nothing else.
Rounds == {a \in 1..Len(tcMs) : tcMs[a].role = "assistant"}
ResultsOf(a) ==
    LET ends == {e \in a..Len(tcMs) : \A j \in (a + 1)..e : tcMs[j].role = "tool"}
    IN  (a + 1)..Most(ends)
Paired ==
    /\ \A a \in Rounds : /\ {tcMs[j].id : j \in ResultsOf(a)} = tcMs[a].calls
                         /\ Cardinality(ResultsOf(a)) = Cardinality(tcMs[a].calls)
    /\ \A i \in 1..Len(tcMs) : tcMs[i].role = "tool" => \E a \in Rounds : i \in ResultsOf(a)

\* validate_transcript accepts exactly the transcripts a provider accepts:
\* every call has one result, right behind the message that made it.
ValidMeansPaired == Valid(tcMs) <=> Paired

OlderOf(keep)  == SubSeq(tcMs, 1, Len(tcMs) - Len(Kept(tcMs, keep)))

\* Quickstart.md: compaction "keeps complete tool-call rounds intact so the
\* transcript stays valid": a cut leaves a valid transcript, and so is what
\* goes to the summary.
RoundsStayWhole ==
    Valid(tcMs) => \A keep \in Keeps : Valid(Kept(tcMs, keep)) /\ Valid(OlderOf(keep))

\* Compaction does its work: a transcript longer than keep that is more than
\* one round gets shorter, keeps its last message, and exceeds keep only by a
\* last round that alone is longer.
LastSpan == Most(SpanStarts(tcMs))
CutIsUseful ==
    Valid(tcMs) => \A keep \in Keeps :
       /\ Len(tcMs) > keep /\ LastSpan # 1 => Len(Kept(tcMs, keep)) < Len(tcMs)
       /\ tcMs # << >> => Kept(tcMs, keep) # << >>
       /\ Len(Kept(tcMs, keep)) > keep => Len(Kept(tcMs, keep)) = Len(tcMs) - LastSpan + 1

\* The cuts of a compaction, over every transcript of a bounded length.
CutsSound == tcMs # << >> => ValidMeansPaired /\ RoundsStayWhole /\ CutIsUseful

-----------------------------------------------------------------------------
(* The parts. *)

VARIABLE part

answersVars == <<part, cvVars, tcMs, smVars, apVars, ftVars, vdVars, tuVars, lgVars>>

Begun(p) == part = p /\ UNCHANGED part

\* Projects of Rust, of Python beside Rust or without a build file, some of
\* whose tests are not written yet.
AllWritten == \A f \in VdFiles : vdTree[f] = "good"
SomeProjects == /\ "python" \in vdMarks => "cargo" \in vdMarks
                /\ vdMarks = {} => vdGit = "root"

AnswersInit ==
    /\ part \in {"session", "transcript", "stream", "approvals", "files", "tests", "verdicts",
                "tuning", "ranks", "receipts"}
    /\ CvInit /\ TcInit
    /\ SmInit /\ (part # "stream" => smForm = "chat" /\ smMeant = <<>> /\ smSays = "none" /\ smKnown)
    /\ ApInit /\ (part # "approvals" => apPolicy = "always" /\ apOutside = "allow" /\ apCwdIn)
    /\ FtInit /\ (part # "files" => ftDisk = [path \in Paths |-> Missing])
    /\ VdInit /\ (IF part = "tests" THEN SomeProjects ELSE vdMarks = {} /\ vdGit = "none" /\ AllWritten)
    /\ LgInit
    /\ TuInit /\ tuFile.provider = "llamacpp" /\ (part # "ranks" => tuMemory = 16)

AnswersNext ==
    \/ Begun("session") /\ CvNext /\ UNCHANGED <<tcMs, smVars, apVars, ftVars, vdVars, tuVars, lgVars>>
    \/ Begun("transcript") /\ TcGrow /\ UNCHANGED <<cvVars, smVars, apVars, ftVars, vdVars, tuVars, lgVars>>
    \/ Begun("stream") /\ SmNext /\ UNCHANGED <<cvVars, tcMs, apVars, ftVars, vdVars, tuVars, lgVars>>
    \/ Begun("approvals") /\ ApNext /\ UNCHANGED <<cvVars, tcMs, smVars, ftVars, vdVars, tuVars, lgVars>>
    \/ Begun("files") /\ FtNext /\ UNCHANGED <<cvVars, tcMs, smVars, apVars, vdVars, tuVars, lgVars>>
    \/ Begun("tests") /\ TestNext /\ UNCHANGED <<cvVars, tcMs, smVars, apVars, ftVars, tuVars, lgVars>>
    \/ Begun("verdicts") /\ CaseNext /\ UNCHANGED <<cvVars, tcMs, smVars, apVars, ftVars, tuVars, lgVars>>
    \/ Begun("tuning") /\ TuNext /\ UNCHANGED <<cvVars, tcMs, smVars, apVars, ftVars, vdVars, lgVars>>
    \/ Begun("ranks") /\ RankNext /\ UNCHANGED <<cvVars, tcMs, smVars, apVars, ftVars, vdVars, lgVars>>
    \/ Begun("receipts") /\ LgNext /\ UNCHANGED <<cvVars, tcMs, smVars, apVars, ftVars, vdVars, tuVars>>

AnswersSpec == AnswersInit /\ [][AnswersNext]_answersVars

\* Two files, and texts in which a word is there once, with another, or twice.
TextsOfFiles == {<<"a">>, <<"a", "b">>, <<"a", "a">>}
CallsOfModel ==
    LET C(tool, ops, dry) == [tool |-> tool, ops |-> ops, dry |-> dry] IN
    {C("file_write", <<Op(1, "whole", "", <<"b">>)>>, FALSE),
     C("file_edit", <<Op(1, "create", "", <<"b">>)>>, FALSE),
     C("file_edit", <<Op(1, "word", "a", <<"b">>), Op(1, "word", "b", <<>>)>>, FALSE),
     C("batch_edit", <<Op(2, "word", "a", <<"b">>), Op(1, "end", "", <<"b">>), Op(1, "word", "a", <<>>)>>, FALSE),
     C("batch_edit", <<Op(2, "word", "a", <<"b">>), Op(1, "start", "", <<"a">>)>>, TRUE),
     C("apply_patch", <<Op(1, "hunk", <<"a">>, <<"b">>), Op(2, "hunk", <<"a", "b">>, <<"b">>)>>, FALSE)}

NamedFiles == {<<t, t>> : t \in TestFiles} \cup {<<"a.py", "test_a.py">>}
BelowFiles == {<<t, t>> : t \in TestFiles}
              \cup {<<"test_b.py", "test_a.py">>, <<"lib/b.rs", "test_b.py">>}
CoveredFiles == {<<"a.py", "test_a.py">>, <<"lib/b.rs", "test_b.py">>, <<"a.py", "tests/a.rs">>}
RubricWeights == <<3, 2, 5>>

\* A model the memory holds and one it does not; sizes about every limit; and
\* probes that reach nothing, no stream, a call, a call as text, none.
TriedParams == [m \in Models |-> IF m = "small" THEN 70 ELSE 320]
TriedBits == [m \in Models |-> 4]
FileOfModel == [m \in Models |-> m]
UsualOf == [p \in Providers |-> "small"]
RankedSizes == {<<0, 0>>, <<30, 4>>, <<80, 0>>, <<70, 8>>, <<140, 4>>, <<180, 8>>, <<240, 2>>, <<330, 2>>,
                <<700, 4>>}
ProbeFinds ==
    LET F(list, stream, usage, calls, json, first) ==
            [list |-> list, stream |-> stream, usage |-> usage, calls |-> calls, json |-> json, first |-> first]
    IN {F(FALSE, FALSE, FALSE, 0, FALSE, {}), F(TRUE, FALSE, FALSE, 1, FALSE, {"small"}),
        F(TRUE, TRUE, TRUE, 1, FALSE, {"big"}), F(TRUE, TRUE, FALSE, 0, TRUE, {"small"}),
        F(TRUE, TRUE, TRUE, 2, FALSE, {"small"})}
BenchSpeeds == {[tps |-> 20, first |-> 900], [tps |-> 3, first |-> 12000]}

\* Selectors and one model have a price.
Prices == ("selector" :> 1) @@ ("unpriced" :> 0) @@ ("priced" :> 1)

Interchangeable == Permutations(CallIds)

=============================================================================
