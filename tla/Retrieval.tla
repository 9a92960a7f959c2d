----------------------------- MODULE Retrieval ------------------------------
(***************************************************************************)
(* Which files the model sees (retrieval/index.py) and which hypotheses    *)
(* come out (agents/localiser.py).  A path is its place in the alphabet;   *)
(* how well it fits the query by its name, and how well each unit of the   *)
(* file (a function, or what is outside) fits by BM25, are given numbers.  *)
(***************************************************************************)
EXTENDS Integers, Sequences, SequencesExt

CONSTANTS
  MaxFiles,          \* files read in one search (MAX_FILES)
  MaxCandidates,     \* MAX_LOCALISE_CANDIDATES
  Resolution         \* scores that round(score, 4) does not tell apart

ASSUME BoundsAssumption ==
  MaxFiles \in Nat \ {0} /\ MaxCandidates \in Nat \ {0} /\ Resolution \in Nat \ {0}

(* files[path] = [relevance, readable, units]; a unit is [symbol, score].   *)

-----------------------------------------------------------------------------
BetterThanNothing(score) == score > 0

(* key=(-score, path) *)
Ahead(score, path, score2, path2) == score > score2 \/ (score = score2 /\ path < path2)

ByScore(a, b) == a.score > b.score                                    \* mutant
ByScoreThenPath(a, b) == Ahead(a.score, a.path, b.score, b.path)

(* sorted(): nothing stands after what it comes before, equals stay as they *)
(* were.                                                                    *)
Sorts(p, entries) ==
  /\ IsInjective(p)
  /\ \A i, j \in DOMAIN p : i < j =>
       \/ ByScoreThenPath(entries[p[i]], entries[p[j]])
       \/ ~ByScoreThenPath(entries[p[j]], entries[p[i]]) /\ p[i] < p[j]

InOrder(entries) ==
  LET p == CHOOSE p \in [DOMAIN entries -> DOMAIN entries] : Sorts(p, entries)
  IN  [i \in DOMAIN entries |-> entries[p[i]]]

Prioritise(files, paths) ==
  IF Len(paths) <= MaxFiles THEN paths
  ELSE LET ranked == InOrder([i \in DOMAIN paths |->
                               [path |-> paths[i], score |-> files[paths[i]].relevance]])
       IN  [i \in 1 .. MaxFiles |-> ranked[i].path]

NoUnit == [symbol |-> "", score |-> 0]

BestUnit(units) ==       \* the first of the best; no unit with a score of zero
  FoldLeft(LAMBDA best, unit : IF unit.score > best.score THEN unit ELSE best, NoUnit, units)

Match(path, unit) == [path |-> path, symbol |-> unit.symbol, score |-> unit.score]

Matches(files, paths) ==
  FoldLeft(LAMBDA hits, path :
             LET unit == BestUnit(files[path].units)
             IN  IF files[path].readable /\ BetterThanNothing(unit.score)
                 THEN Append(hits, Match(path, unit)) ELSE hits,
           <<>>, paths)

Rounded(hit) == [hit EXCEPT !.score = @ \div Resolution]

Search(files, paths, k) ==
  LET ranked == InOrder(Matches(files, Prioritise(files, paths)))
  IN  [i \in 1 .. Min({k, Len(ranked)}) |-> Rounded(ranked[i])]

-----------------------------------------------------------------------------
Key(h) == <<h.path, h.symbol>>

(* Append h unless the list is full or has it already. *)
Offer(list, h) ==
  IF Len(list) >= MaxCandidates \/ \E i \in DOMAIN list : Key(list[i]) = Key(h)
  THEN list ELSE Append(list, h)

RankCandidates(hits) ==
  LET ordered == InOrder(hits)
  IN  IF hits = <<>> \/ ~BetterThanNothing(Head(ordered).score) THEN <<>>
      ELSE FoldLeft(Offer, <<>>, ordered)

Localise(best, hits) == FoldLeft(Offer, <<best>>, RankCandidates(hits))
=============================================================================
