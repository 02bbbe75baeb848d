----------------------------- MODULE DriveIngest -----------------------------
(* The publish request bridge (coloring-pages-publish-request-dispatcher) and  *)
(* the Drive ingest it runs for each activity of a batch                        *)
(* (coloring-pages-drive-ingest). A dispatcher claims one batch; its own lock    *)
(* is held for as long as it lives, so there is one at a time. The ingest takes  *)
(* the publication lock and remembers on disk how far it came with each id.      *)
EXTENDS ContentStore

CONSTANT Batches   \* a sequence of batches, each a sequence of activities [id, art]

ASSUME BatchesAssumption == Batches \in Seq(Seq([id : Id, art : Art]))

VARIABLES
    batch,    \* where the request of a batch is, and its result
    bridge,   \* the dispatcher and the ingest it waits for
    ingest,   \* state files of an id that has no receipt
    receipt   \* the drawing an id's receipt names

driveVars == <<batch, bridge, ingest, receipt>>

BatchIds == DOMAIN Batches
NoBridge == [batch |-> 0, at |-> "none", succeeded |-> 0]
Results == [verdict : {"PASS", "FAIL"}, succeeded : Nat]

DriveTypeOK ==
    /\ batch \in [BatchIds -> [request : {"ready", "marked", "claimed"}, result : Maybe(Results)]]
    /\ bridge \in [batch : BatchIds \cup {0}, succeeded : Nat,
                   at : {"none", "claim", "activity", "download", "preserved", "import", "exit"}]
    /\ bridge.succeeded <= IF bridge.batch = 0 THEN 0 ELSE Len(Batches[bridge.batch])
    /\ ingest \in [Id -> {"none", "partial", "preserved", "handed"}]
    /\ receipt \in [Id -> Maybe(Art)]

DriveInit ==
    /\ batch = [b \in BatchIds |-> [request |-> "ready", result |-> None]]
    /\ bridge = NoBridge
    /\ ingest = [i \in Id |-> "none"] /\ receipt = [i \in Id |-> None]

Activity == Batches[bridge.batch][bridge.succeeded + 1]
Remaining == bridge.succeeded < Len(Batches[bridge.batch])

\* A variant: a marker that stays is found again when its dispatcher has died.
ClaimRequestOnly(b) ==
    /\ bridge.at = "none" /\ batch[b].result = None
    /\ batch' = [batch EXCEPT ![b].request = "marked"]
    /\ bridge' = [NoBridge EXCEPT !.batch = b, !.at = "claim"]
    /\ UNCHANGED <<storeVars, ingest, receipt>>

\* The first ready marker is claimed, then its request: a request without its marker
\* starts nothing.
ClaimMarker(b) ==
    /\ bridge.at = "none" /\ batch[b].request = "ready"
    /\ \A c \in 1 .. b - 1 : batch[c].request # "ready"
    /\ batch' = [batch EXCEPT ![b].request = "marked"]
    /\ bridge' = [NoBridge EXCEPT !.batch = b, !.at = "claim"]
    /\ UNCHANGED <<storeVars, ingest, receipt>>

ClaimRequest ==
    /\ bridge.at = "claim"
    /\ batch' = [batch EXCEPT ![bridge.batch].request = "claimed"]
    /\ bridge' = [bridge EXCEPT !.at = "activity"]
    /\ UNCHANGED <<storeVars, ingest, receipt>>

-----------------------------------------------------------------------------
(* One ingest.                                                                *)

Verified(i, a) == catalog[i] = a /\ originals[i] = a /\ media[i] = a

AlreadyProcessed ==
    /\ bridge.at = "activity" /\ Remaining /\ lock = None
    /\ LET x == Activity IN receipt[x.id] = x.art /\ Verified(x.id, x.art)
    /\ bridge' = [bridge EXCEPT !.succeeded = @ + 1]
    /\ UNCHANGED <<storeVars, batch, ingest, receipt>>

\* Neither state files nor a trace of the id in the store; archive records are not looked at.
StartIngest ==
    /\ bridge.at = "activity" /\ Remaining /\ lock = None
    /\ LET i == Activity.id IN
          /\ ingest[i] = "none" /\ receipt[i] = None /\ NoFiles(i) /\ ~Live(i)
          /\ ingest' = [ingest EXCEPT ![i] = "partial"]
    /\ lock' = "ingest"
    /\ bridge' = [bridge EXCEPT !.at = "download"]
    /\ UNCHANGED <<catalog, record, inbox, originals, media, importer, batch, receipt>>

\* Everything is downloaded; the manifest is kept for good.
Preserve ==
    /\ bridge.at = "download"
    /\ ingest' = [ingest EXCEPT ![Activity.id] = "preserved"]
    /\ bridge' = [bridge EXCEPT !.at = "preserved"]
    /\ UNCHANGED <<storeVars, batch, receipt>>

HandOverDownload ==
    /\ bridge.at = "preserved"
    /\ HandOver(Activity.id, Activity.art)
    /\ ingest' = [ingest EXCEPT ![Activity.id] = "handed"]
    /\ bridge' = [bridge EXCEPT !.at = "import"]
    /\ UNCHANGED <<catalog, record, originals, media, lock, batch, receipt>>

\* What was imported is verified, the receipt is written and the lock is freed.
WriteReceipt ==
    /\ bridge.at = "import" /\ importer[Activity.id].at = "done"
    /\ Verified(Activity.id, Activity.art)
    /\ importer' = Abandoned(Activity.id)
    /\ receipt' = [receipt EXCEPT ![Activity.id] = Activity.art]
    /\ ingest' = [ingest EXCEPT ![Activity.id] = "none"]
    /\ lock' = None
    /\ bridge' = [bridge EXCEPT !.at = "exit"]
    /\ UNCHANGED <<catalog, record, inbox, originals, media, batch>>

\* A variant: a success is counted when it is printed and when the ingest exits.
IngestExitsTwice ==
    /\ bridge.at = "exit"
    /\ bridge' = [bridge EXCEPT !.at = "activity", !.succeeded = @ + 2]
    /\ UNCHANGED <<storeVars, batch, ingest, receipt>>

\* The sitemap is refreshed and the ingest says PASS.
IngestExits ==
    /\ bridge.at = "exit"
    /\ bridge' = [bridge EXCEPT !.at = "activity", !.succeeded = @ + 1]
    /\ UNCHANGED <<storeVars, batch, ingest, receipt>>

-----------------------------------------------------------------------------
(* How a batch ends.                                                          *)

Ending == lock' = IF lock = "ingest" THEN None ELSE lock
LeftByIngest == IF bridge.at = "import" THEN Abandoned(Activity.id) ELSE importer

BatchPasses ==
    /\ bridge.at = "activity" /\ ~Remaining
    /\ batch' = [batch EXCEPT ![bridge.batch].result = [verdict |-> "PASS", succeeded |-> bridge.succeeded]]
    /\ bridge' = NoBridge
    /\ UNCHANGED <<storeVars, ingest, receipt>>

\* The ingest is refused, fails, or is killed after 180 seconds wherever it is: with the
\* container running, or with the receipt written. No further activity is tried.
BatchFails ==
    /\ bridge.at \notin {"none", "claim"} /\ (bridge.at = "activity" => Remaining)
    /\ Ending /\ importer' = LeftByIngest
    /\ batch' = [batch EXCEPT ![bridge.batch].result = [verdict |-> "FAIL", succeeded |-> bridge.succeeded]]
    /\ bridge' = NoBridge
    /\ UNCHANGED <<catalog, record, inbox, originals, media, ingest, receipt>>

BridgeStep ==
    \/ ClaimRequest \/ AlreadyProcessed \/ StartIngest \/ Preserve \/ HandOverDownload
    \/ WriteReceipt \/ IngestExits \/ BatchPasses \/ BatchFails

\* The dispatcher and its ingest are killed, by systemd's 1800 seconds or with the host.
BridgeDies ==
    /\ bridge.at # "none"
    /\ Ending /\ importer' = LeftByIngest /\ bridge' = NoBridge
    /\ UNCHANGED <<catalog, record, inbox, originals, media, batch, ingest, receipt>>

DriveNext == (\E b \in BatchIds : ClaimMarker(b)) \/ BridgeStep \/ BridgeDies
=============================================================================
