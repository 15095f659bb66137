------------------------------ MODULE MCSyncLoop ------------------------------
(* Constants for the run of SyncLoop: a paused root that downloads and roots *)
(* that upload, added by the user, over shared relative paths.               *)
EXTENDS SyncLoop, TLC

Root(t, p) == [paused |-> p, type |-> t]
File(p) == [path |-> p, kind |-> "File", change |-> "Upsert"]

PausedDownload == (1 :> Root("DownloadOnly", TRUE))

TwoFiles == {File(1), File(2)}
OneFile == {<<File(1)>>}
RefusedName == {<<File(3)>>}
=============================================================================
