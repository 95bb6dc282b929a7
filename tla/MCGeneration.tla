---------------------------- MODULE MCGeneration ----------------------------
(***************************************************************************)
(* What a generation passes on its way to a site and back, for MCServices: *)
(* the lock file of the edits and the exits of one process, the server     *)
(* actions of nanobanana, the buffers of the downloads, and the batches of *)
(* the engine.                                                             *)
(***************************************************************************)
EXTENDS MCData, Downloads, BatchWorker, ActionSniffer, EditExits

CONSTANTS Editors, Contained, Funerals  \* EditMutex: processes, those with pid 1, deaths

VARIABLES pc, waited, lock, life

mutexVars == <<pc, waited, lock, life>>
generationVars == <<mutexVars, actionVars, loadVars, exitVars, bunchVars>>

(* api/dispatch_edit.py: who waits gives up long before a lock is old      *)
Mutex == INSTANCE EditMutex WITH
    Procs <- Editors, Inits <- Contained, MaxAge <- 3, Wait <- 1, MaxDeaths <- Funerals

GenerationInit == Mutex!Init /\ ActionInit /\ DownloadInit /\ ExitsInit /\ BatchInit

GenerationNext ==
    /\ \/ which = "mutex" /\ Mutex!Next
       \/ which = "action" /\ ActionNext
       \/ which = "download" /\ DownloadNext
       \/ which = "exits" /\ ExitsNext
       \/ which = "batch" /\ BatchNext
    /\ UNCHANGED which
    /\ which # "mutex" => UNCHANGED mutexVars
    /\ which # "action" => UNCHANGED actionVars
    /\ which # "download" => UNCHANGED loadVars
    /\ which # "exits" => UNCHANGED exitVars
    /\ which # "batch" => UNCHANGED bunchVars

\* The fairness of each component, as its module states it.
GenerationFair ==
    /\ WF_mutexVars(which = "mutex" /\ Mutex!Tick)
    /\ \A p \in Editors : WF_mutexVars(which = "mutex" /\ Mutex!Attempt(p))
    /\ WF_actionVars(which = "action" /\ RoundBegins)
    /\ SF_actionVars(which = "action" /\ KeepaliveEnters)
    /\ WF_actionVars(which = "action" /\ FinishRound)
    /\ \A g \in Posters : WF_actionVars(which = "action" /\ FinishFor(g))
    /\ SF_actionVars(which = "action" /\ \E a \in Actors : ReadPage(a))

GenerationTypes == Mutex!TypeOK /\ ActionTypes /\ DownloadTypes /\ ExitsTypes /\ BatchTypes

\* api/dispatch_edit.py:66: the lock of a dead process does not keep others out.
DeadHolderPasses == Mutex!DeadHolderPasses
\* api/dispatch_edit.py:4: one process edits at a time.
OneEditAtATime == Mutex!OneEditAtATime

\* api/providers/action_sniffer.py:288: the ids catch up with the site.
IdsCatchUp == which = "action" => CatchesUp
=============================================================================
