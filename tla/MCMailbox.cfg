CONSTANTS
    Size <- MCSize
    Mails <- MCMails
    Residue <- MCResidue
    Writers = {w1, w2}
    NoWriter = NoWriter
    NoMail = NoMail
    MaxMails = 6

SPECIFICATION FairSpec
INVARIANTS
    TypeOK
    HeadTail
    InOrderIntact
    RingInv
PROPERTIES
    ImplementsFifo
    EveryMailRead
CHECK_DEADLOCK FALSE
