------------------------------ MODULE MCJanus ------------------------------
(***************************************************************************)
(* The signalling of a room client and the JSON reader it reads every      *)
(* message of the server with, for model checking.  A behaviour belongs to *)
(* one scenario: in "janus" the client runs, in "reader" a buffer arrives, *)
(* in "search" a document is built.                                        *)
(***************************************************************************)
EXTENDS Janus

VARIABLES sc,                  \* the scenario
          family, buf, left,   \* JsonBytes
          tree, gap            \* JsonSearch

jsonV == <<family, buf, left, tree, gap>>

all == <<sc, vars, jsonV>>

Reader == INSTANCE JsonBytes WITH
  JSON_MAX_DEPTH <- 3, MAX_INDEX_VALUE <- 19, MaxPieces <- 5
(* The same reader with room for one open bracket: nested documents are    *)
(* too deep for it.                                                        *)
Shallow == INSTANCE JsonBytes WITH
  JSON_MAX_DEPTH <- 1, MAX_INDEX_VALUE <- 19, MaxPieces <- 5
Search == INSTANCE JsonSearch WITH
  JSON_MAX_DEPTH <- 3, MAX_INDEX_VALUE <- 19, MaxItems <- 2, MaxNest <- 2

NoBytes == family = 0 /\ buf = 0 /\ left = 0
NoTree == tree = 0 /\ gap = 0

MCInit ==
  /\ Init
  /\ \/ sc = "janus" /\ NoBytes /\ NoTree
     \/ sc = "reader" /\ Reader!Init /\ NoTree
     \/ sc = "search" /\ Search!Init /\ NoBytes

(* The buffer is full, or the document complete.                           *)
Read ==
  \/ sc = "reader" /\ left = 0
  \/ sc = "search" /\ ~Search!HasHole(tree)

MCNext ==
  /\ UNCHANGED sc
  /\ \/ sc = "janus" /\ Next /\ UNCHANGED jsonV
     \/ sc = "reader" /\ Reader!Next /\ UNCHANGED <<vars, tree, gap>>
     \/ sc = "search" /\ Search!Next /\ UNCHANGED <<vars, family, buf, left>>
     \/ Read /\ UNCHANGED <<vars, jsonV>>

MCSpec ==
  /\ MCInit /\ [][MCNext]_all
  /\ WF_all(sc = "janus" /\ (\E r \in req : Reply(r)) /\ UNCHANGED <<sc, jsonV>>)
  /\ WF_all(/\ sc = "janus"
            /\ \E j \in joins : \/ \E event \in BOOLEAN : JoinRefused(j, event)
                                \/ \E i \in 0..1, f \in Feeds \cup {0} : Joined(j.handle, i, f)
            /\ UNCHANGED <<sc, jsonV>>)
-----------------------------------------------------------------------------
(* The JSON reader takes exactly the scalars of JSON and every document,   *)
(* or says that it is nested too deep, takes a complete document for       *)
(* final, and finds and iterates over what is in it (JSON_Validate,        *)
(* JSON_SearchConst and JSON_Iterate).                                     *)
ReaderExact ==
  /\ sc = "reader" => /\ Reader!ScalarsExact /\ Reader!DocumentsTaken
                      /\ Reader!CompleteIsFinal /\ Shallow!DocumentsTaken
  /\ sc = "search" => /\ Search!SearchFinds /\ Search!LargeIndexRefused
                      /\ Search!IterateGivesAll

(* HandshakeEnds of Janus.tla, in the scenario in which the client runs.   *)
RoomReached == (sc = "janus") => HandshakeEnds
=============================================================================
