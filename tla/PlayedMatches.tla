--------------------------- MODULE PlayedMatches ---------------------------
(***************************************************************************)
(* What an accepted score is, told by how the match is played: whatever    *)
(* scoresheet the source shows, the parser takes its score exactly when    *)
(* the match could have been played to it.                                 *)
(***************************************************************************)
EXTENDS KovoParser

CONSTANT Scoresheets   \* the rows that the source may show

\* A score is a number of points or absent, and no result and no issue is absent.
ASSUME ScoresheetAssumption ==
    /\ \A row \in Scoresheets :
         /\ row.sets \in Seq((Nat \cup {Null}) \X (Nat \cup {Null}))
         /\ row.totals \in (Nat \cup {Null}) \X (Nat \cup {Null})
    /\ Null \notin Nat
    /\ Null \notin [code : ResultIssues, availability : {"missing", "unverified"}]
    /\ Null \notin [wins : Nat \X Nat, sets : Seq(Nat \X Nat), finality : {"provisional"}]

\* The reviewed rules are volleyball's: two points clear, and no more than
\* three sets to win.
ASSUME RulesAssumption ==
    \A season \in DOMAIN Rules :
      /\ {Rules[season].regular, Rules[season].deciding, Rules[season].maximum} \subseteq Nat \ {0}
      /\ Rules[season].margin \in Nat \ {0, 1}
      /\ Rules[season].toWin \in 1..3

VARIABLE scoresheet   \* the row whose score was read, or Null

\* _parse_result, of any row.
ReadScoresheet ==
    /\ scoresheet = Null
    /\ scoresheet' \in Scoresheets

ParserInit == scoresheet = Null

ParserSpec == ParserInit /\ [][ReadScoresheet]_scoresheet

-----------------------------------------------------------------------------
(* Properties.                                                             *)

SetOver(home, away, target, margin) ==
    Max({home, away}) >= target /\ Max({home, away}) - Min({home, away}) >= margin

\* The scores a set can show, point by point, up to a limit.
CanShow(limit, target, margin) ==
    LET shown[s \in (0..limit) \X (0..limit)] ==
          \/ s = <<0, 0>>
          \/ s[1] > 0 /\ shown[<<s[1] - 1, s[2]>>] /\ ~SetOver(s[1] - 1, s[2], target, margin)
          \/ s[2] > 0 /\ shown[<<s[1], s[2] - 1>>] /\ ~SetOver(s[1], s[2] - 1, target, margin)
    IN  shown

CanEnd(set, number, rule) ==
    LET target == TargetOf(number, rule)
    IN  /\ CanShow(Max({set[1], set[2]}), target, rule.margin)[set]
        /\ SetOver(set[1], set[2], target, rule.margin)

\* The first n sets are played to their end, the others not at all, and the
\* match ends with the n-th set and not before.
PlayedOut(row, rule, n) ==
    LET won(m, side) == WinsOf(SubSeq(row.sets, 1, m), side)
    IN  /\ \A i \in (n + 1)..Len(row.sets) : Unplayed(row.sets[i])
        /\ \A i \in 1..n : Null \notin {row.sets[i][1], row.sets[i][2]} /\ CanEnd(row.sets[i], i, rule)
        /\ \E side \in 1..2 : won(n, side) = rule.toWin
        /\ \A side \in 1..2 : won(n - 1, side) < rule.toWin
        /\ row.totals = <<Points(SubSeq(row.sets, 1, n), 1), Points(SubSeq(row.sets, 1, n), 2)>>

\* A score is accepted exactly when the match could have been played to it,
\* point by point and set by set, under the rule of its season.
AcceptsPlayedMatches ==
    scoresheet # Null =>
      (ParseResult(scoresheet).result # Null <=>
         /\ scoresheet.season \in DOMAIN Rules
         /\ \E n \in DOMAIN scoresheet.sets : PlayedOut(scoresheet, Rules[scoresheet.season], n))
=============================================================================
