----------------------------- MODULE MCServices ------------------------------
(***************************************************************************)
(* Small instances of the services around the stream: the API, the blob    *)
(* publisher, the web page and the three families of batch jobs.  They     *)
(* share no state that their properties depend on, so one of them moves.   *)
(***************************************************************************)
EXTENDS Api, BlobPublisher, LivePage, DailyBatch, Lakehouse, Backup

VARIABLE service

vars == <<service, apiVars, blobVars, pageVars, dailyVars, lakeVars, backupVars>>

OneRoute   == {"r1"}
TwoStreams == {"s1", "s2"}
TwoSlices  == {"quality", "wind"}
TwoFields  == <<"KJFK", "KLGA">>

(* On the first day a sliver of KJFK's arrivals has no plausible volume.   *)
Arrivals == <<[KJFK |-> 3, KLGA |-> 1], [KJFK |-> 1, KLGA |-> 0]>>

Init ==
    /\ service \in {"api", "blob", "page", "daily", "lake", "backup"}
    /\ ApiInit /\ BlobInit /\ PageInit /\ DailyInit /\ LakeInit /\ BackupInit
    /\ service # "blob" => due = FALSE
    /\ service # "page" => api /\ vercel /\ ~sunset
    /\ service # "lake" => configured /\ azure

ApiMoves ==
    /\ service = "api" /\ ApiNext
    /\ UNCHANGED <<service, blobVars, pageVars, dailyVars, lakeVars, backupVars>>

BlobMoves ==
    /\ service = "blob" /\ BlobNext
    /\ UNCHANGED <<service, apiVars, pageVars, dailyVars, lakeVars, backupVars>>

PageMoves ==
    /\ service = "page" /\ PageNext
    /\ UNCHANGED <<service, apiVars, blobVars, dailyVars, lakeVars, backupVars>>

DailyMoves ==
    /\ service = "daily" /\ DailyNext
    /\ UNCHANGED <<service, apiVars, blobVars, pageVars, lakeVars, backupVars>>

LakeMoves ==
    /\ service = "lake" /\ LakeNext
    /\ UNCHANGED <<service, apiVars, blobVars, pageVars, dailyVars, backupVars>>

BackupMoves ==
    /\ service = "backup" /\ BackupNext
    /\ UNCHANGED <<service, apiVars, blobVars, pageVars, dailyVars, lakeVars>>

Next == ApiMoves \/ BlobMoves \/ PageMoves \/ DailyMoves \/ LakeMoves \/ BackupMoves

Spec == Init /\ [][Next]_vars

(* The timers of a page that is still open fire, and requests end.         *)
InPage(A) ==
    /\ service = "page" /\ A
    /\ UNCHANGED <<service, apiVars, blobVars, dailyVars, lakeVars, backupVars>>

LiveSpec ==
    /\ Spec
    /\ WF_vars(InPage(Reconnect)) /\ WF_vars(InPage(Stall))
    /\ WF_vars(InPage(PollAgain)) /\ WF_vars(InPage(Answers))

(* The same, of the page alone.                                            *)
PageLiveSpec == service = "page" /\ LiveSpec

(* The loop of the publisher goes on as long as it has not raised.         *)
BlobLoopSpec ==
    /\ Init /\ service = "blob" /\ [][Next]_vars
    /\ WF_vars(/\ service = "blob" /\ (StartUp \/ PublishLive \/ History \/ Wake)
               /\ UNCHANGED <<service, apiVars, pageVars, dailyVars, lakeVars, backupVars>>)

TypeOK ==
    ApiTypeOK /\ BlobTypeOK /\ PageTypeOK /\ DailyTypeOK /\ LakeTypeOK /\ BackupTypeOK

Freezes == service = "page" => FreezesInTheEnd

=============================================================================
