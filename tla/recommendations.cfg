SPECIFICATION Spec
CONSTANTS
    Catalogue <- MCCatalogue
    Preferences <- MCPreferences
    Queries <- MCQueries
    NoQuery = NoQuery
    NoList = NoList
    NoAnswer = NoAnswer
    MaxMoments = 3
INVARIANT PlacesMatterOnlyForSeasons
PROPERTY BestAreShown
