-------------------------- MODULE MCRecommendations -------------------------
(* A wardrobe for Recommendations in which most color rules, asymmetric    *)
(* seasons, missing labels and two patterned items occur.  Five garments   *)
(* make up to four outfits, more than the limit of one, and of three.  The *)
(* labels of the second top and of the shoes may be edited.                *)
EXTENDS Recommendations

Item(garment, category, type, color, season, occasion, material, pattern) ==
    [garment |-> garment, category |-> category, type |-> type, color |-> color,
     season |-> season, occasion |-> occasion, material |-> material, pattern |-> pattern]

MCCatalogue ==
    {Item(1, "shirt", "", "red", "summer", "casual", "cotton", "striped"),
     Item(2, "", "top", "blue", "", "formal", "silk", "solid"),
     Item(2, "jacket", "top", "multicolor", "all_season", "sport", "leather", ""),
     Item(3, "pants", "", "green", "spring", "casual", "denim", "checkered"),
     Item(4, "", "pantalón", "orange", "fall", "", "", "solid"),
     Item(5, "shoes", "", "black", "winter", "formal", "leather", ""),
     Item(5, "shoes", "", "pink", "summer", "party", "suede", "graphic")}

MCPreferences ==
    {[colors |-> {"red", "black"}, seasons |-> {"summer"}, occasions |-> {}, avoid |-> {}],
     [colors |-> {}, seasons |-> {}, occasions |-> {"formal"}, avoid |-> {"pink"}]}

MCQueries ==
    {[season |-> "", occasion |-> "", limit |-> 0],
     [season |-> "fall", occasion |-> "casual", limit |-> 1],
     [season |-> "", occasion |-> "", limit |-> 1]}

============================================================================
