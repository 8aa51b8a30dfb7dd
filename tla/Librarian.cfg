\* Two sources, the first of them never sure to be answered for; watch beside maintain, so that
\* two sessions may extract the same source.
SPECIFICATION MCSpec
CONSTANTS
    cron = cron
    hand = hand
    pair = pair
    doubt = doubt
    Sources = {1, 2}
    Poison = {1}
    Grade <- Grades
    Cases = {pair}
    Kind <- Kinds
    Of <- Sides
    Sessions = {cron, hand}
    Runs <- CronAndWatch
    Retries = 0
    Accepts = {"plain"}
    NoSession = NoSession
    MaxRows = 2
    MaxTexts = 3
    MaxCrashes = 1
PROPERTIES
    NoSourceStarves
