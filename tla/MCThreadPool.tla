---------------------------- MODULE MCThreadPool ----------------------------
(* Three workers, and tasks that call enqueue themselves.                  *)
EXTENDS ThreadPool

=============================================================================
