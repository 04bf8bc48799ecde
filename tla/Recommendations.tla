-------------------------- MODULE Recommendations --------------------------
(***************************************************************************)
(* GET /clothes/recommendations and the style preferences it reads, for    *)
(* one user: ClotheService.GetRecommendations lists the wardrobe, loads    *)
(* the preferences with a second query, and ranks every outfit.  Nothing   *)
(* holds the rows still meanwhile: garments are completed, relabelled by   *)
(* their owner or a second analysis, or taken back by a redelivered job,   *)
(* and preferences are saved.                                              *)
(***************************************************************************)
EXTENDS OutfitScores, SequencesExt

CONSTANTS
    Catalogue,     \* rows the user's garments may have: a garment and its labels
    Preferences,   \* preferences the user may save
    Queries,       \* season, occasion and limit of a request
    NoQuery,       \* no request is being answered
    NoList,        \* the request has not read the wardrobe yet
    NoAnswer,      \* the last request has no answer, or failed
    MaxMoments     \* bound on the wardrobes that a request lives through

ASSUME WardrobeAssumption == /\ IsFiniteSet(Catalogue)
                             /\ \A q \in Queries : q.limit \in Int
                             /\ NoQuery \notin Queries
                             /\ \A wardrobe \in SUBSET Catalogue : NoList # wardrobe

VARIABLES
    completed,  \* the rows whose status is completed, one for a garment
    prefs,      \* the row of user_style_preferences
    query,      \* the request being answered
    listed,     \* the wardrobe it read
    shown,      \* the last answer
    moments     \* history: the wardrobes there have been since it arrived

vars == <<completed, prefs, query, listed, shown, moments>>

(* A user without a row is one who prefers and avoids nothing.             *)
NoPreferences == [colors |-> {}, seasons |-> {}, occasions |-> {}, avoid |-> {}]

Init ==
    /\ completed = {}
    /\ prefs = NoPreferences
    /\ query = NoQuery
    /\ listed = NoList
    /\ shown = NoAnswer
    /\ moments = {}

----------------------------------------------------------------------------
(* garmentMatchesFilter.                                                   *)
Matches(g, q) ==
    /\ \/ Missing \in {g.season, q.season}
       \/ SeasonCompatibility(g.season, q.season) >= 70
    /\ \/ Missing \in {g.occasion, q.occasion}
       \/ OccasionCompatibility(g.occasion, q.occasion) >= 60

(* bucketGarments: the garments that can be worn in a place of the outfit. *)
Wearable(S, q, categories) ==
    {g \in S : /\ Matches(g, q)
               /\ (IF g.category = Missing THEN g.type ELSE g.category) \in categories}

Tops == {"shirt", "jacket", "camiseta", "top", "dress"}
Bottoms == {"pants", "pantalón", "bottom"}
Footwear == {"shoes", "calzado"}

HasAvoidedColor(outfit, p) == \E i \in 1 .. 3 : outfit[i].color \in p.avoid

Candidates(S, q, p) ==
    {outfit \in Wearable(S, q, Tops) \X Wearable(S, q, Bottoms) \X Wearable(S, q, Footwear) :
        ~ HasAvoidedColor(outfit, p)}

(* A limit that is not positive means three.                               *)
Limit(q) == IF q.limit <= 0 THEN 3 ELSE q.limit

Cut(s, n) == SubSeq(s, 1, Min({n, Len(s)}))

Sorted(s, p) == \A i, j \in DOMAIN s : i < j => Score(s[i], p) >= Score(s[j], p)

(* Mutant: the list is cut before it is sorted.                            *)
CutThenSorted(outfits, p, n) ==
    {s \in {Cut(t, n) : t \in SetToSeqs(outfits)} : Sorted(s, p)}

(* The first n outfits of every order that sort.Slice may put them in: by  *)
(* falling score, and those that tie in any order.                         *)
Ranked(outfits, p, n) == {Cut(s, n) : s \in {t \in SetToSeqs(outfits) : Sorted(t, p)}}

----------------------------------------------------------------------------
(* The rows change: one statement, whatever a request has read.            *)
RowsBecome(wardrobe) ==
    /\ Cardinality(moments) < MaxMoments
    /\ completed' = wardrobe
    /\ moments' = IF query = NoQuery THEN {} ELSE moments \cup {wardrobe}
    /\ UNCHANGED <<prefs, query, listed, shown>>

(* A garment is classified, by the worker or with PATCH.                   *)
Complete(g) ==
    /\ \A h \in completed : h.garment # g.garment
    /\ RowsBecome(completed \cup {g})

(* SaveClassification of a completed garment, by its owner or a second     *)
(* worker: one UPDATE of all its labels, and it stays completed.           *)
Reclassify(g, h) ==
    /\ g \in completed
    /\ h # g /\ h.garment = g.garment
    /\ RowsBecome((completed \ {g}) \cup {h})

(* A redelivered job, or its owner, gives it another status.               *)
Reprocess(g) ==
    /\ g \in completed
    /\ RowsBecome(completed \ {g})

(* PutStylePreferences: one UPSERT replaces the whole row.                 *)
SavePreferences(p) ==
    /\ prefs' = p
    /\ UNCHANGED <<completed, query, listed, shown, moments>>

(* GetRecommendations is called.                                           *)
Ask(q) ==
    /\ query = NoQuery
    /\ query' = q
    /\ shown' = NoAnswer
    /\ moments' = {completed}
    /\ UNCHANGED <<completed, prefs, listed>>

(* Mutant: tops and bottoms are read before the footwear, in a query of    *)
(* their own.                                                              *)
ListTwice ==
    /\ query # NoQuery
    /\ listed = NoList
    /\ \E earlier \in moments :
          listed' = {g \in earlier : g.category \notin Footwear}
                      \cup {g \in completed : g.category \in Footwear}
    /\ UNCHANGED <<completed, prefs, query, shown, moments>>

(* The first query; the engine looks at completed garments only.           *)
ListWardrobe ==
    /\ query # NoQuery
    /\ listed = NoList
    /\ listed' = completed
    /\ UNCHANGED <<completed, prefs, query, shown, moments>>

(* The second query and the engine.                                        *)
Recommend ==
    /\ listed # NoList
    /\ shown' \in Ranked(Candidates(listed, query, prefs), prefs, Limit(query))
    /\ query' = NoQuery
    /\ listed' = NoList
    /\ moments' = {}
    /\ UNCHANGED <<completed, prefs>>

(* Either query fails, and the request with it.                            *)
LoadFails ==
    /\ query # NoQuery
    /\ query' = NoQuery
    /\ listed' = NoList
    /\ moments' = {}
    /\ UNCHANGED <<completed, prefs, shown>>

Next ==
    \/ \E g \in Catalogue : \/ Complete(g) \/ Reprocess(g)
                            \/ \E h \in Catalogue : Reclassify(g, h)
    \/ \E p \in Preferences : SavePreferences(p)
    \/ \E q \in Queries : Ask(q)
    \/ ListWardrobe
    \/ Recommend
    \/ LoadFails

Spec == Init /\ [][Next]_vars

----------------------------------------------------------------------------
(* What a search of all the outfits of a wardrobe gives: each is shown     *)
(* once, the best come first, nothing that was left out beats what is      *)
(* shown, and nothing is left out while there is room.                     *)
IsBest(answer, wardrobe, q, p) ==
    LET candidates == Candidates(wardrobe, q, p)
        out == candidates \ ToSet(answer)
    IN /\ ToSet(answer) \subseteq candidates
       /\ Cardinality(ToSet(answer)) = Len(answer)
       /\ Len(answer) <= Limit(q)
       /\ out # {} => Len(answer) = Limit(q)
       /\ \A i \in DOMAIN answer :
             /\ \A o \in out : Score(o, p) <= Score(answer[i], p)
             /\ \A j \in 1 .. i - 1 : Score(answer[j], p) >= Score(answer[i], p)

(* However the garments and the preferences are rewritten while a request  *)
(* runs, its answer is the best of the wardrobe that the user had at one   *)
(* moment of it, labels included, for the preferences of its end: never of *)
(* a wardrobe older than the request, nor of a mixture of two.             *)
BestAreShown ==
    [][shown = NoAnswer /\ shown' # NoAnswer =>
          \E wardrobe \in moments : IsBest(shown', wardrobe, query, prefs)]_vars

(* What an outfit scores does not depend on which garment is worn where,   *)
(* except through the season table, which is not symmetric: summer with    *)
(* fall is adjacent one way round only.                                    *)
PlacesMatterOnlyForSeasons ==
    shown # NoAnswer =>
        \A i \in DOMAIN shown :
            LET a == shown[i][1]  b == shown[i][2]  c == shown[i][3] IN
            \/ /\ Score(<<a, b, c>>, prefs) = Score(<<b, a, c>>, prefs)
               /\ Score(<<a, b, c>>, prefs) = Score(<<c, a, b>>, prefs)
            \/ {"summer", "fall"} \subseteq {a.season, b.season, c.season}

============================================================================
