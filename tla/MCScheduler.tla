----------------------------- MODULE MCScheduler -----------------------------
(* Scheduler on small plans: file transfers of two roots, an urgent delete,  *)
(* and one plan that mixes the roots; two busy roots beside a quiet one.     *)
EXTENDS Scheduler

Op(k, r, p) == [op |-> k, sync |-> r, path |-> p]

MCPlans ==
    {<<Op("DownloadFile", 1, 1), Op("DeleteLocal", 1, 2)>>,
     <<Op("UploadFile", 1, 1)>>,
     <<Op("DownloadFile", 2, 1)>>,
     <<Op("DownloadFile", 2, 1), Op("DeleteLocal", 1, 2)>>}

BusyPlans ==
    {<<Op("DeleteLocal", 1, 1), Op("DeleteLocal", 1, 2)>>,
     <<Op("DeleteLocal", 2, 1), Op("DeleteLocal", 2, 2)>>,
     <<Op("DownloadFile", 3, 1)>>}
=============================================================================
