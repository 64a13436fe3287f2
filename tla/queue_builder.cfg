SPECIFICATION Spec
CONSTANTS
    a1 = a1
    a2 = a2
    b = b
    o = o
    root = root
    left = left
    deep = deep
    right = right
    n1 = n1
    n2 = n2
    n3 = n3
    t1 = t1
    t2 = t2
    t3 = t3
    u1 = u1
    p = p
    q = q
    NoDeck = NoDeck
    NoTopic = NoTopic
    Absent = Absent
    Cards <- FourCards
    DeckOf <- CardDeck
    NoteOf <- CardNote
    Position <- CardPosition
    Decks <- FourDecks
    Parent <- DeckParent
    Topics <- FourTopics
    UnitOf <- TopicUnit
    Prereqs <- TopicPrereqs
    UnitPrereqs <- UnitOrder
    Settings <- SomeSettings
    Returns <- CardReturns
PROPERTY DayLimitsKept
PROPERTY LeftOutForAReason
PROPERTY ListTellsTheQueue
PROPERTY TopicsOpen
