----------------------------- MODULE MCThreads -----------------------------
(***************************************************************************)
(* The threads around a worker: hosts that shut the runtime down, hosts    *)
(* that send commands, blocking calls with pooled reply channels, and      *)
(* threads that share lock-free capacity scopes.  The four share no state, *)
(* so a behaviour is about one of them: focus says which, and the others   *)
(* stay as they were created.  The components are extended as they are,    *)
(* with the constants of the cfg.                                          *)
(***************************************************************************)
EXTENDS SharedScope, Shutdown, HostReplyPool, HostCommands

VARIABLE focus

\* Three hosts and one queue place: a deadline send and an observed send next to
\* a strict send or to a control call.
HostMixes == {<<"until", "observer", "strict">>, <<"until", "observer", "control">>}

\* Two threads reserve in a "requests" and a "bytes" scope in opposite orders:
\* either reservation fits alone, not both.
ScopeCap == [s \in Scopes |-> 3]
Need(s, w) == [scope |-> s, weight |-> w]
ThreadCharges ==
    <<<<Need("requests", 2), Need("bytes", 2)>>,
      <<Need("bytes", 2), Need("requests", 1)>>>>

ASSUME ThreadsAssumption ==
    /\ ShutdownAssumption
    /\ HostsAssumption
    /\ ReplyAssumption
    /\ ScopeAssumption

allVars == <<focus, closeVars, sendVars, replyVars, vars>>

AnyInit ==
    /\ focus \in {"closing", "sends", "replies", "shared"}
    /\ CloseInit /\ HostInit /\ ReplyInit /\ Init
    /\ focus # "sends" => op = <<"until", "observer", "strict">>

About(name) == focus = name /\ UNCHANGED focus
InClosing == About("closing") /\ UNCHANGED <<sendVars, replyVars, vars>>
InSends == About("sends") /\ UNCHANGED <<closeVars, replyVars, vars>>
InReplies == About("replies") /\ UNCHANGED <<closeVars, sendVars, vars>>
InShared == About("shared") /\ UNCHANGED <<closeVars, sendVars, replyVars>>

AnyNext ==
    \/ InClosing /\ CloseNext
    \/ InSends /\ HostNext
    \/ InReplies /\ ReplyNext
    \/ InShared /\ Next

\* The fairness of Shutdown, in the behaviours that are about it.
ClosingFair ==
    /\ \A s \in Shards : WF_allVars(InClosing /\ Worker(s))
    /\ \A h \in Handles : WF_allVars(InClosing /\ Request(h))
    /\ \A c \in Callers : /\ WF_allVars(InClosing /\ EnsureJoiner(c))
                          /\ WF_allVars(InClosing /\ Wake(c))
    /\ WF_allVars(InClosing /\ OwnerStops)
    /\ WF_allVars(InClosing /\ Joiner)

FairSpec == AnyInit /\ [][AnyNext]_allVars /\ ClosingFair
=============================================================================
