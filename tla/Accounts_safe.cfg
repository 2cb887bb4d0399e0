SPECIFICATION FairSpec
CONSTANTS
    u1 = u1
    u2 = u2
    u3 = u3
    Users = {u1, u2, u3}
    Emails = {"old", "new"}
    Wallets = {9}
    Chats = {1}
    Clients = {"c1", "c2"}
    CodeColumns = {"enforced", "free"}
    MaxRequests = 4

INVARIANTS
    SignupsAgree
    VerifiedByOwnCode
    CredentialsMatch

PROPERTIES
    SwitchesStand
    AnswersAreStored

CHECK_DEADLOCK FALSE
