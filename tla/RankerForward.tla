--------------------------- MODULE RankerForward ---------------------------
(***************************************************************************)
(* classic/ranking: prepare_features (app.py) and RankerLogic.forward      *)
(* (ranker.py) as operators on sequences.  A request is a record           *)
(* [user_id, candidate_ids]; user_feats is a sequence of users, row i      *)
(* being the features of the i-th request.                                 *)
(***************************************************************************)
EXTENDS Integers, Sequences, SequencesExt

CONSTANTS
    Users, Candidates,
    ItemIndex,          \* [Candidates -> Nat]: CRC32 % NUM_ITEMS
    Score               \* the dot products under the checkpoint's weights

\* What a set of weights makes of every user and item row.
Scores == [Users -> [{ItemIndex[c] : c \in Candidates} -> Int]]

ASSUME ItemIndexAssumption == ItemIndex \in [Candidates -> Nat]
ASSUME ScoreAssumption == Score \in Scores

\* The elements of S in the order in which Before puts them (SortSeq of TLC has no
\* definition that a proof could use).
InOrder(S, Before(_, _)) ==
    CHOOSE s \in [1..Cardinality(S) -> S] :
      \A j \in DOMAIN s : \A i \in 1..(j - 1) : Before(s[i], s[j])

\* prepare_features: duplicates dropped, the first of each kept in its place.
Unique(ids) ==
    LET first == {i \in DOMAIN ids : \A j \in 1..(i - 1) : ids[j] # ids[i]}
        at == InOrder(first, LAMBDA a, b : a < b)
    IN  [k \in DOMAIN at |-> ids[at[k]]]

prepare_features(request) ==
    [user_id |-> request.user_id, candidate_ids |-> Unique(request.candidate_ids)]

\* list.sort(key=score, reverse=True): stable also in reverse.
Ranked(scored) ==
    LET at == InOrder(DOMAIN scored,
                LAMBDA a, b : \/ scored[a].score > scored[b].score
                              \/ scored[a].score = scored[b].score /\ a < b)
    IN  [k \in DOMAIN at |-> scored[at[k]]]

counts(requests) == [i \in DOMAIN requests |-> Len(requests[i].candidate_ids)]

\* Mutant of Offset: it is never advanced.
OffsetZero(requests, i) == 0

Offset(requests, i) == FoldLeft(+, 0, SubSeq(counts(requests), 1, i - 1))

\* One pass over the flattened slates: each user's row is repeated across its
\* own candidates, then the flat scores are cut back at the offsets.
forward(requests, user_feats, score) ==
    LET n == counts(requests)
        flat_ids == FlattenSeq([i \in DOMAIN requests |->
                      [j \in 1..n[i] |-> ItemIndex[requests[i].candidate_ids[j]]]])
        expanded == FlattenSeq([i \in DOMAIN requests |->
                      [j \in 1..n[i] |-> user_feats[i]]])
        flat_scores == [k \in DOMAIN flat_ids |-> score[expanded[k]][flat_ids[k]]]
    IN  [i \in DOMAIN requests |->
           [user_id |-> requests[i].user_id,
            ranked |-> Ranked([j \in 1..n[i] |->
                         [candidate_id |-> requests[i].candidate_ids[j],
                          score |-> flat_scores[Offset(requests, i) + j]]])]]

-----------------------------------------------------------------------------
(* TwoTowerRanker.forward for one user, the readable reference (model.py:64). *)
IsAnswerTo(response, request, score) ==
    LET ids == request.candidate_ids
        ranked == response.ranked
        place(k) == CHOOSE j \in DOMAIN ids : ids[j] = ranked[k].candidate_id
    IN  /\ response.user_id = request.user_id
        /\ Len(ranked) = Len(ids)
        /\ {ranked[k].candidate_id : k \in DOMAIN ranked} = ToSet(ids)
        /\ \A k \in DOMAIN ranked :
             ranked[k].score = score[request.user_id][ItemIndex[ranked[k].candidate_id]]
        /\ \A k \in 1..(Len(ranked) - 1) :
             \/ ranked[k].score > ranked[k + 1].score
             \/ ranked[k].score = ranked[k + 1].score /\ place(k) < place(k + 1)
=============================================================================
