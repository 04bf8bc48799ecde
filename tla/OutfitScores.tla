---------------------------- MODULE OutfitScores ----------------------------
(***************************************************************************)
(* The scoring rules of the recommendation engine (color_harmony.go,       *)
(* metadata_compatibility.go, recommendation_engine.go), in whole numbers. *)
(* A compatibility is in hundredths.  A score counts units of 1 / 252000,  *)
(* which every average over 1, 3 or up to 9 items divides; the order of    *)
(* two scores is the order of the real numbers, so outfits that differ by  *)
(* floating-point rounding only are ties here.  Labels are the normalised  *)
(* ones (trimmed, lower case), and Missing is the empty string.            *)
(***************************************************************************)
EXTENDS Integers, Sequences, FiniteSets, FiniteSetsExt

Missing == ""

(* One hundredth, in units of a score, and the score 1.0.                  *)
Hundredth == 2520
One == 100 * Hundredth

----------------------------------------------------------------------------
(* Colors.                                                                 *)
Neutrals == {"black", "white", "gray", "beige", "navy"}

(* The pairs complementaryPairs lists, each in both directions.            *)
Complements == {<<"red", "green">>, <<"green", "red">>, <<"blue", "orange">>,
                <<"orange", "blue">>, <<"purple", "yellow">>, <<"yellow", "purple">>}

AnalogousGroups == {{"blue", "navy", "purple"}, {"red", "orange", "pink"},
                    {"green", "beige", "brown"}, {"yellow", "orange", "beige"}}

(* Mutant: an edit of the table that forgets one direction.                *)
ComplementaryOneWay(a, b) == <<a, b>> \in Complements \ {<<"green", "red">>}

Complementary(a, b) == <<a, b>> \in Complements

Analogous(a, b) == \E group \in AnalogousGroups : {a, b} \subseteq group

ColorHarmony(a, b) ==
    CASE Missing \in {a, b}        -> 60
      [] a = b /\ a # Missing      -> IF a = "multicolor" THEN 75 ELSE 80
      [] a # b /\ Missing \notin {a, b} ->
            IF {a, b} \cap Neutrals # {} THEN 100
            ELSE IF "multicolor" \in {a, b} THEN 70
            ELSE IF Complementary(a, b) THEN 90
            ELSE IF Analogous(a, b) THEN 85
            ELSE 30

----------------------------------------------------------------------------
(* Seasons, occasions, materials.                                          *)
SeasonAdjacency ==
    {<<"summer", "spring">>, <<"summer", "fall">>, <<"spring", "summer">>,
     <<"spring", "fall">>, <<"fall", "spring">>, <<"fall", "winter">>,
     <<"winter", "fall">>}

SeasonCompatibility(a, b) ==
    IF Missing \in {a, b} THEN 70
    ELSE IF a = b \/ "all_season" \in {a, b} THEN 100
    ELSE IF <<a, b>> \in SeasonAdjacency THEN 70
    ELSE 30

OccasionTable ==
    [casual  |-> [casual |-> 100, outdoor |-> 80, beach |-> 80, sport |-> 60, formal |-> 40, party |-> 50],
     formal  |-> [formal |-> 100, party |-> 70, casual |-> 40, outdoor |-> 30, sport |-> 20, beach |-> 20],
     sport   |-> [sport |-> 100, outdoor |-> 70, casual |-> 60, beach |-> 50, formal |-> 20, party |-> 30],
     party   |-> [party |-> 100, formal |-> 70, casual |-> 50, outdoor |-> 40, sport |-> 30, beach |-> 50],
     outdoor |-> [outdoor |-> 100, casual |-> 80, sport |-> 70, beach |-> 60, formal |-> 30, party |-> 40],
     beach   |-> [beach |-> 100, casual |-> 80, outdoor |-> 60, sport |-> 50, party |-> 50, formal |-> 20]]

MaterialTable ==
    [cotton    |-> [cotton |-> 100, denim |-> 90, linen |-> 90, wool |-> 70, polyester |-> 80, leather |-> 60, silk |-> 70, suede |-> 60],
     denim     |-> [denim |-> 100, cotton |-> 90, leather |-> 80, wool |-> 70, linen |-> 70, polyester |-> 70, silk |-> 50, suede |-> 70],
     leather   |-> [leather |-> 100, denim |-> 80, wool |-> 70, cotton |-> 60, suede |-> 80, silk |-> 50, polyester |-> 50, linen |-> 40],
     silk      |-> [silk |-> 100, wool |-> 70, cotton |-> 70, polyester |-> 60, leather |-> 50, denim |-> 50, linen |-> 70, suede |-> 60],
     wool      |-> [wool |-> 100, cotton |-> 70, denim |-> 70, leather |-> 70, silk |-> 70, suede |-> 80, linen |-> 50, polyester |-> 60],
     polyester |-> [polyester |-> 100, cotton |-> 80, denim |-> 70, wool |-> 60, linen |-> 60, leather |-> 50, silk |-> 60, suede |-> 50],
     linen     |-> [linen |-> 100, cotton |-> 90, denim |-> 70, silk |-> 70, wool |-> 50, leather |-> 40, polyester |-> 60, suede |-> 50],
     suede     |-> [suede |-> 100, leather |-> 80, wool |-> 80, denim |-> 70, cotton |-> 60, silk |-> 60, linen |-> 50, polyester |-> 50]]

OccasionCompatibility(a, b) ==
    IF Missing \in {a, b} THEN 70
    ELSE IF {a, b} \subseteq DOMAIN OccasionTable THEN OccasionTable[a][b]
    ELSE IF a = b THEN 100
    ELSE 40

MaterialCompatibility(a, b) ==
    IF Missing \in {a, b} THEN 70
    ELSE IF a = b THEN 100
    ELSE IF {a, b} \subseteq DOMAIN MaterialTable THEN MaterialTable[a][b]
    ELSE 50

Patterned == {"striped", "checkered", "floral", "polka_dots", "camouflage",
              "graphic", "animal_print"}

----------------------------------------------------------------------------
(* An outfit is a sequence of garments: top, bottom, footwear.  A score is *)
(* about the pairs of garments that have the label it looks at.            *)
Labelled(outfit, field) == {i \in DOMAIN outfit : outfit[i][field] # Missing}

PairsOf(places) == {ij \in places \X places : ij[1] < ij[2]}

(* minPairwiseScore and avgPairwiseScore, of the compatibility of each     *)
(* pair.                                                                   *)
MinPairwise(compatibility) ==
    Min({100} \cup {compatibility[ij] : ij \in DOMAIN compatibility}) * Hundredth

AveragePairwise(compatibility) ==
    LET pairs == DOMAIN compatibility IN
    IF pairs = {} THEN One
    ELSE (MapThenSumSet(LAMBDA ij : compatibility[ij], pairs) * Hundredth) \div Cardinality(pairs)

ColorScore(outfit) ==
    AveragePairwise([ij \in PairsOf(DOMAIN outfit) |->
                        ColorHarmony(outfit[ij[1]].color, outfit[ij[2]].color)])

SeasonScore(outfit) ==
    IF Labelled(outfit, "season") = {} THEN 70 * Hundredth
    ELSE MinPairwise([ij \in PairsOf(Labelled(outfit, "season")) |->
                         SeasonCompatibility(outfit[ij[1]].season, outfit[ij[2]].season)])

OccasionScore(outfit) ==
    IF Labelled(outfit, "occasion") = {} THEN 70 * Hundredth
    ELSE MinPairwise([ij \in PairsOf(Labelled(outfit, "occasion")) |->
                         OccasionCompatibility(outfit[ij[1]].occasion, outfit[ij[2]].occasion)])

MaterialScore(outfit) ==
    IF Labelled(outfit, "material") = {} THEN 70 * Hundredth
    ELSE AveragePairwise([ij \in PairsOf(Labelled(outfit, "material")) |->
                             MaterialCompatibility(outfit[ij[1]].material, outfit[ij[2]].material)])

PatternScore(outfit) ==
    LET patterned == {i \in DOMAIN outfit : outfit[i].pattern \in Patterned} IN
    IF \A i \in DOMAIN outfit : outfit[i].pattern = Missing THEN 80 * Hundredth
    ELSE IF Cardinality(patterned) <= 1 THEN One
    ELSE 30 * Hundredth

(* The share of the known labels of the outfit that the user prefers.  No  *)
(* preferences saved is the same as empty ones.                            *)
PreferenceScore(outfit, prefs) ==
    LET Asked(field, wanted) == IF wanted = {} THEN {} ELSE Labelled(outfit, field)
        Liked(field, wanted, good) == {i \in Asked(field, wanted) : outfit[i][field] \in good}
        checks == Cardinality(Asked("color", prefs.colors))
                  + Cardinality(Asked("season", prefs.seasons))
                  + Cardinality(Asked("occasion", prefs.occasions))
        hits == Cardinality(Liked("color", prefs.colors, prefs.colors))
                + Cardinality(Liked("season", prefs.seasons, prefs.seasons \cup {"all_season"}))
                + Cardinality(Liked("occasion", prefs.occasions, prefs.occasions))
    IN IF checks = 0 THEN 70 * Hundredth ELSE (hits * One) \div checks

(* scoreOutfit with DefaultScoreWeights, in hundredths of a unit.          *)
Score(outfit, prefs) ==
    35 * ColorScore(outfit) + 20 * SeasonScore(outfit) + 20 * OccasionScore(outfit)
      + 10 * MaterialScore(outfit) + 10 * PatternScore(outfit)
      + 5 * PreferenceScore(outfit, prefs)

============================================================================
