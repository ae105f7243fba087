--------------------------- MODULE MCSecureChannel ---------------------------
(***************************************************************************)
(* The secure channel of either side, with the calls that may fail.        *)
(***************************************************************************)
EXTENDS SecureChannel

\* Every failure but the one of the second pthread_create.
BothThreads ==
    ({"main"} \X (MainCalls \ {"create_recv"}))
        \cup ({"send"} \X SendCalls) \cup ({"recv"} \X RecvCalls)

\* The second thread cannot be created.
OneThread == {<<"main", "create_recv">>}
=============================================================================
