----------------------------- MODULE MCOsExecutor -----------------------------
(* Small instances of OsExecutor for TLC. *)
EXTENDS OsExecutor

CONSTANTS guarded, lenient, query

(* Two calls with a timeout that share a signal, one of which inspects its *)
(* result instead of rejecting, and a synchronous call.                    *)
MCCalls == {guarded, lenient, query}
MCSynchronous == {query}
MCCancellable == {guarded, lenient}
MCRejecting == {guarded}
MCObedient == {guarded, lenient}
=============================================================================
