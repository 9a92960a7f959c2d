----------------------------- MODULE Algorithms -----------------------------
(***************************************************************************)
(* The pure algorithms of the program put to small questions, one step     *)
(* each, and their answers held against definitions that do not mention    *)
(* how they are computed.                                                  *)
(***************************************************************************)
EXTENDS Diffs, Retrieval, FiniteSets, TLC

CONSTANTS
  Letters,           \* what a line may hold
  Paths,             \* files of a repository, in the order of the alphabet
  Scores,            \* what a unit may score
  Tops               \* how many hits are asked for

ASSUME RepositoryAssumption ==
  IsFiniteSet(Paths) /\ Paths \subseteq Int /\ Scores \subseteq Int /\ Tops \subseteq Nat

VARIABLES question, answer
vars == <<question, answer>>

Marks == {" ", "-", "+"}
UpTo(n, S) == UNION {[1 .. m -> S] : m \in 0 .. n}
NoAnswer == [of |-> "nothing"]

-----------------------------------------------------------------------------
(* A file and a diff of it: gaps of text between two hunks, line numbers    *)
(* right or off.                                                            *)
HunkLines == UpTo(2, [mark : Marks, rest : Letters]) \ {<<>>}
Gaps == UpTo(1, Letters)
Shifts == {<<0, 0>>, <<1, 1>>, <<0, -2>>}

OldText(q) == q.gaps[1] \o OldBlock(q.hunks[1]) \o q.gaps[2] \o OldBlock(q.hunks[2]) \o q.gaps[3]

(* A hunk without old lines names the line it comes after, and lands before *)
(* that line: _locate counts from the line it would replace.                *)
Inserts(hunk) == OldBlock(hunk) = <<>>
Early(text, block) == IF text = <<>> THEN block ELSE Front(text) \o block \o <<Last(text)>>
Put(text, hunk) == IF Inserts(hunk) THEN Early(text, NewBlock(hunk)) ELSE text \o NewBlock(hunk)

Begun(q) == Put(q.gaps[1], q.hunks[1]) \o q.gaps[2]
HalfWay(q) == Begun(q) \o OldBlock(q.hunks[2]) \o q.gaps[3]
NewText(q) == Put(Begun(q), q.hunks[2]) \o q.gaps[3]

Line(hunk, n) == IF Inserts(hunk) THEN n - 1 ELSE n
FirstLine(q) == Line(q.hunks[1], Len(q.gaps[1]) + 1)
SecondLine(q) ==
  Line(q.hunks[2], Len(q.gaps[1]) + Len(OldBlock(q.hunks[1])) + Len(q.gaps[2]) + 1)

Numbered(q) == <<[start |-> FirstLine(q) + q.off[1], lines |-> q.hunks[1].lines],
                 [start |-> SecondLine(q) + q.off[2], lines |-> q.hunks[2].lines]>>

HunkQuestions ==
  [about : {"hunks"}, hunks : {<<[lines |-> a], [lines |-> b]>> : a, b \in HunkLines},
   gaps : [1 .. 3 -> Gaps], off : Shifts]

AnswerHunks ==
  /\ question.about = "hunks" /\ answer = NoAnswer
  /\ answer' = [of |-> "hunks", result |-> ApplyHunks(OldText(question), Numbered(question))]
  /\ UNCHANGED question

Once(block, lines) == block # <<>> /\ Cardinality(Places(block, lines)) = 1

(* "At the hint, else the first exact match": with right line numbers every *)
(* hunk that has old lines lands where it belongs whatever its text, because*)
(* the earlier ones are accounted for; with wrong ones it does when its old *)
(* lines stand in the file once, as the earlier hunks have left it.  A hunk *)
(* of added lines alone does not: with its right number it lands one line   *)
(* too early, unless it goes to the top, and disturbs no other hunk.        *)
HunksLandRight ==
  answer.of = "hunks" =>
    \/ answer.result.ok /\ answer.result.out = NewText(question)
    \/ /\ question.off # <<0, 0>>
       /\ \/ ~Once(OldBlock(question.hunks[1]), OldText(question))
          \/ ~Once(OldBlock(question.hunks[2]), HalfWay(question))

-----------------------------------------------------------------------------
(* Diffs as git and the models write them, to be read back.                 *)
Text(line) == IF line = "" THEN <<>> ELSE IF line = "-- " \/ line = "++ " THEN <<line, "f">> ELSE <<line>>
Texts == {Text(x) : x \in {"", "x", "-- ", "++ "}}
Bodies == UpTo(2, [mark : Marks, rest : Texts]) \ {<<>>}
Count(lines, marks) == Cardinality({i \in DOMAIN lines : lines[i].mark \in marks})
WholeHunk(lines) ==
  [start |-> 1, old |-> Count(lines, {" ", "-"}), new |-> Count(lines, {" ", "+"}), lines |-> lines]

RenderLine(line, bare) ==      \* an empty context line may lose its blank
  IF bare /\ line = [mark |-> " ", rest |-> <<>>] THEN [line EXCEPT !.mark = ""] ELSE line
RenderHunk(hunk, style) ==
  <<[mark |-> "@", rest |-> <<"@", hunk.start, hunk.old, hunk.new>>]>>
  \o [i \in DOMAIN hunk.lines |-> RenderLine(hunk.lines[i], style.bare)]
  \o (IF style.noEol THEN <<[mark |-> "\\", rest |-> <<" No newline at end of file">>]>> ELSE <<>>)
Name(file) == IF file.new = NoPath THEN file.old ELSE file.new
Metadata(file) ==
  IF file.new = NoPath THEN [mark |-> "d", rest |-> <<"eleted file mode ">>]
  ELSE [mark |-> "i", rest |-> <<"ndex ">>]
RenderFile(file, style) ==
  (IF style.git THEN <<[mark |-> "d", rest |-> <<"iff --git ", Name(file), Name(file)>>],
                       Metadata(file)>> ELSE <<>>)
  \o <<[mark |-> "-", rest |-> <<"-- ", file.old>>], [mark |-> "+", rest |-> <<"++ ", file.new>>]>>
  \o FlattenSeq([i \in DOMAIN file.hunks |-> RenderHunk(file.hunks[i], style)])
Rendered(files, style) == FlattenSeq([i \in DOMAIN files |-> RenderFile(files[i], style)])

File(old, new, bodies) ==
  [old |-> old, new |-> new, hunks |-> [i \in DOMAIN bodies |-> WholeHunk(bodies[i])]]
Styles == [git : BOOLEAN, bare : BOOLEAN, noEol : BOOLEAN]
Plain == {style \in Styles : ~style.bare /\ ~style.noEol}
CutShort == {<<[mark |-> "d", rest |-> <<"iff --git ">>]>>, <<[mark |-> "@", rest |-> <<"@">>]>>}
Changed(a, b) == <<File("f", "f", <<a, b>>)>>
Swapped(a, b) == <<File(NoPath, "f", <<a>>), File("g", NoPath, <<b>>)>>
WrittenFiles == {Changed(a, b) : a, b \in Bodies} \cup {Swapped(a, b) : a, b \in Bodies}
DiffQuestions ==           \* diffs to their end, and some whose last line is cut short
  [about : {"diff"}, style : Styles, files : WrittenFiles, ending : {<<>>}]
  \cup [about : {"diff"}, style : Plain, files : WrittenFiles, ending : CutShort]

AnswerDiff ==
  /\ question.about = "diff" /\ answer = NoAnswer
  /\ answer' = [of |-> "diff",
                result |-> ParseDiff(Rendered(question.files, question.style) \o question.ending)]
  /\ UNCHANGED question

(* "Hunk bodies are consumed by COUNT": what was written is what is read,   *)
(* although a removed or added line may look like the header of a file; and *)
(* a diff that breaks off in a header is refused, not read up to there.     *)
DiffReadsBack ==
  answer.of = "diff" =>
    IF question.ending = <<>>
    THEN ~answer.result.error /\ answer.result.files = question.files
    ELSE answer.result.error

-----------------------------------------------------------------------------
(* A repository listed in any order, searched, and the model's own choice.  *)
Units == {<<>>} \cup {<<[symbol |-> "f", score |-> s]>> : s \in Scores}
         \cup {<<[symbol |-> "f", score |-> s], [symbol |-> "g", score |-> t]>> :
                 s, t \in Scores \ {0, 1}}
Sources ==
  [relevance : {0, 1}, readable : {TRUE}, units : Units]
  \cup {[relevance |-> 1, readable |-> FALSE, units |-> <<>>]}
SearchQuestions ==
  [about : {"search"}, files : [Paths -> Sources], order : SetToSeqs(Paths), k : Tops,
   best : {[path |-> 1, symbol |-> "f", score |-> 0]}]   \* what the model answers

AnswerSearch ==
  /\ question.about = "search" /\ answer = NoAnswer
  /\ LET hits == Search(question.files, question.order, question.k)
     IN  answer' = [of |-> "search", hits |-> hits, hypotheses |-> Localise(question.best, hits)]
  /\ UNCHANGED question

(* The files that are read: fewer than MaxFiles fit better by their names.  *)
Chosen(files) ==
  {p \in Paths :
     Cardinality({q \in Paths : Ahead(files[q].relevance, q, files[p].relevance, p)}) < MaxFiles}
Best(file) == IF file.units = <<>> THEN 0 ELSE Max({file.units[i].score : i \in DOMAIN file.units})
Found(files) == {p \in Chosen(files) : files[p].readable /\ Best(files[p]) > 0}
Place(files, p) ==
  Cardinality({q \in Found(files) : Ahead(Best(files[q]), q, Best(files[p]), p)}) + 1

(* The model's choice comes first and once, and no hit is missing while     *)
(* there is room, unless even the best one's score is rounded to nothing.   *)
Named(best, hits, hypotheses) ==
  /\ hypotheses[1] = best /\ Len(hypotheses) <= MaxCandidates
  /\ IsInjective([i \in DOMAIN hypotheses |-> Key(hypotheses[i])])
  /\ hits # <<>> /\ hits[1].score > 0 /\ Len(hypotheses) < MaxCandidates =>
       \A h \in Range(hits) : \E i \in DOMAIN hypotheses : Key(hypotheses[i]) = Key(h)

(* One hit per file, the best of what could be read, each with a best unit  *)
(* of its file.                                                             *)
TheBest(files, k, hits) ==
  /\ Len(hits) = Min({k, Cardinality(Found(files))})
  /\ \A i \in DOMAIN hits :
       LET file == files[hits[i].path]
       IN  /\ hits[i].path \in Found(files) /\ Place(files, hits[i].path) = i
           /\ hits[i].score = Best(file) \div Resolution
           /\ \E u \in DOMAIN file.units :
                file.units[u].symbol = hits[i].symbol /\ file.units[u].score = Best(file)

(* The hits are the best, in an order that the order of the listing has no  *)
(* part in: "a cassette key is a hash of the prompt these snippets go into".*)
HitsAreTheBest ==
  answer.of = "search" =>
    /\ TheBest(question.files, question.k, answer.hits)
    /\ Named(question.best, answer.hits, answer.hypotheses)

-----------------------------------------------------------------------------
Init ==
  /\ question \in HunkQuestions \cup DiffQuestions \cup SearchQuestions
  /\ answer = NoAnswer

Next == AnswerHunks \/ AnswerDiff \/ AnswerSearch
Spec == Init /\ [][Next]_vars
=============================================================================
