\* Two sources, models that answer, nothing dies: a pair is reviewed while maintain adjudicates.
SPECIFICATION Spec
CONSTANTS
    cron = cron
    hand = hand
    pair = pair
    doubt = doubt
    Sources = {1, 2}
    Poison = {}
    Grade <- Grades
    Cases = {pair}
    Kind <- Kinds
    Of <- Sides
    Sessions = {cron, hand}
    Runs <- Commands
    Retries = 1
    Accepts = {"plain"}
    NoSession = NoSession
    MaxRows = 2
    MaxTexts = 3
    MaxCrashes = 0
PROPERTIES
    RunNeverAborts
