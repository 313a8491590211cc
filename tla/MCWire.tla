------------------------------- MODULE MCWire -------------------------------
(***************************************************************************)
(* The parts of Wire and, as one more, the messages themselves.            *)
(***************************************************************************)
EXTENDS Wire

CONSTANTS u, v, w, r1, r2, r3, MaxCut

VARIABLES posted, stream, heard, link

frameVars == <<posted, stream, heard, link>>
allVars == <<wireVars, frameVars>>

InTurn == [i \in Id |-> IF i % 3 = 0 THEN w ELSE IF i % 3 = 1 THEN u ELSE v]
OneFolder == [r \in Request |-> IF r = r2 THEN "folder" ELSE "profile"]
OneUser == [r \in Request |-> "u1"]
(* Every limit, with a schedule that wraps over midnight, or none of the   *)
(* alternate ones and a pause on metered networks.                         *)
BucketRates(total, down, up) == [b \in 0 .. 2 |-> IF b = 0 THEN total ELSE IF b = 1 THEN down ELSE up]
TwoSettings ==
  {[manual |-> FALSE, normal |-> BucketRates(2, 1, 0), alternate |-> BucketRates(1, 0, 1),
    scheduled |-> TRUE, start |-> 2, end |-> 1, metered |-> FALSE],
   [manual |-> FALSE, normal |-> BucketRates(2, 2, 1), alternate |-> BucketRates(0, 0, 0),
    scheduled |-> FALSE, start |-> 0, end |-> 0, metered |-> TRUE]}
WayOf == [a \in Acquirer |-> IF a = "up" THEN 2 ELSE 1]

(* Commands and the radar ask for everything, the Wanted list for tracks.  *)
Pages == [artists |-> 1, cover |-> 1, catalog |-> 3, editions |-> 2, recent |-> 1,
          filing |-> 1, tracklist |-> 1]
Lives == [artists |-> 1, cover |-> 1, catalog |-> 1, editions |-> 1, recent |-> 0,
          filing |-> 0, tracklist |-> Forever]
AskedBy == [c \in Looker |-> IF c \in Impatient THEN {"editions", "tracklist"} ELSE DOMAIN Pages]

(* The limits of the protocol, small enough to be exceeded.                *)
Limits ==
  [user |-> 3, room |-> 3, interests |-> 2, interest |-> 3, roomMessage |-> 3,
   members |-> 2, rooms |-> 2, privateMessage |-> 3, privileged |-> 2, phrases |-> 2,
   phrase |-> 3, parents |-> 2, query |-> 3, description |-> 3, picture |-> 3,
   results |-> 2, folders |-> 2, folderFiles |-> 2, folderTotal |-> 3,
   shareFolders |-> 2, shareFiles |-> 3, attributes |-> 4, inflated |-> 100,
   frame |-> 130, peerFrame |-> 110, profileFrame |-> 36, initFrame |-> 20,
   branchFrame |-> 25]
T == INSTANCE Frames WITH Limit <- Limits
Replies == T!HeardTable
Requests == T!ToldTable
L == INSTANCE MCFrames WITH Limit <- Limits, Heard <- Replies, Told <- Requests
OwnLetters == L!OwnLetters
OtherLetters == L!OtherLetters

C == INSTANCE Protocol WITH
       Limit <- Limits, Heard <- Replies, Told <- Requests,
       sent <- posted, connection <- link

(* All start alike but those whose start makes a difference to them.       *)
MCInit ==
  /\ part \in Parts \cup {"frames"} /\ PartsInit /\ C!FrameInit
  /\ \A n \in Rank : rank[w] <= n
  /\ part # "turns" =>
       /\ waiting = {} /\ served = {} /\ \A x \in User, n \in Rank : rank[x] <= n
  /\ part # "wanted" => tolerance = CHOOSE t \in Tolerance : TRUE
  /\ part # "bandwidth" => minute = 0 /\ settings.scheduled

FramesNext == part = "frames" /\ C!FrameNext /\ UNCHANGED wireVars

(* One user changes its rank, the others keep theirs, whatever they are.   *)
MCNext ==
  \/ WireNext /\ rank'[w] = rank[w] /\ rank'[v] = rank[v] /\ UNCHANGED frameVars
  \/ FramesNext

MCSpec == MCInit /\ [][MCNext]_allVars

(* A message is heard as it was meant, or refused, and leaves the bytes of *)
(* the next one alone (protocol.rs).                                       *)
FramesAreHeard == C!HeardAsMeant /\ C!NoMessageDisturbsTheNext
=============================================================================
