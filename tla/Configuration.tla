----------------------------- MODULE Configuration -----------------------------
(***************************************************************************)
(* The configuration of an enabler, from create_dds_enabler to the end of  *)
(* the DDSEnabler: the file is read once to create it and again by the     *)
(* file watcher's thread whenever it changes, the application may pass a   *)
(* configuration of its own, and both go to the pipe.                      *)
(*                                                                         *)
(* Of a configuration only the two lists of topics can change while the    *)
(* enabler runs.  The pipe and the file watcher are external.              *)
(***************************************************************************)
EXTENDS Naturals, Sequences

CONSTANTS Topics,       \* filters that may be listed
          Contents,     \* what the author of the file may write
          MaxEdits,     \* bound on the times it is written
          MaxReloads,   \* bound on the reloads by the application
          None          \* no file, no lists

Lists == [allowlist : SUBSET Topics, blocklist : SUBSET Topics]
Default == [allowlist |-> {}, blocklist |-> {}]

\* A file by its syntax, what is in the place where its syntax has the topics
\* (a file that has an error there, of any section, is "wrong"), and the lists.
Files == [syntax : {"JSON", "YAML", "NEITHER"}, section : {"present", "missing", "wrong"},
          lists : Lists]

ASSUME ConfigurationAssumption ==
    /\ Contents \subseteq Files
    /\ None \notin Files \cup Lists
    /\ MaxEdits \in Nat /\ MaxReloads \in Nat

\* A file that was opened to be written is empty, which is YAML of nothing.
Emptied == [syntax |-> "YAML", section |-> "missing", lists |-> Default]

VARIABLES file, writing,     \* what the file holds and is to hold, or None
          stage,             \* of create_dds_enabler
          loaded,            \* lists read by create_dds_enabler, or None
          members,           \* of DDSEnabler, in the order of their declaration
          callbacks_set, enabled,
          configuration_, pipe,
          notified,          \* a change of the file that was not read
          looked,            \* the file when is_json has read it, or None
          reloading,         \* lists that the watcher's thread has read, or None
          delivering,        \* a thread of the pipe is in Handler::add_data
          edits, reloads,
          written, given,    \* files and lists there have been
          torn,              \* the file was written while it was read
          unseen,            \* its last change was before the watcher was set
          superseded         \* the application or the pipe has dropped it

author == <<file, writing, edits, written>>
enabler == <<members, callbacks_set, enabled, configuration_, pipe>>
history == <<given, torn, unseen, superseded>>
vars == <<author, stage, loaded, enabler, notified, looked, reloading, delivering, reloads,
          history>>

\* Mutated form: the pipe is declared last.
Declared_PipeLast == <<"configuration_", "handler_", "enabler_participant_",
                       "file_watcher_handler_", "mutex_", "pipe_">>

Declared == <<"configuration_", "handler_", "enabler_participant_", "pipe_",
              "file_watcher_handler_", "mutex_">>

Alive == {members[i] : i \in DOMAIN members}

\* The callback of the watcher runs.
Reloading == (stage = "watched" /\ looked # None) \/ reloading # None

Init ==
    /\ file \in Contents /\ writing = None /\ edits = 0
    /\ written = {file} /\ given = {}
    /\ stage = "none" /\ loaded = None
    /\ members = <<>> /\ callbacks_set = FALSE /\ enabled = FALSE
    /\ configuration_ = None /\ pipe = None
    /\ notified = FALSE /\ looked = None /\ reloading = None /\ delivering = FALSE
    /\ reloads = 0
    /\ torn = FALSE /\ unseen = FALSE /\ superseded = FALSE

-----------------------------------------------------------------------------
(* Reading a file.                                                         *)

\* Whether the file gives a configuration when it is read as JSON or as YAML.
\* Of what it does not expect YAML takes no notice, nor of what is missing.
Loads(f, as_json) ==
    IF as_json THEN f.syntax = "JSON" /\ f.section = "present"
    ELSE f.syntax # "NEITHER" /\ <<f.syntax, f.section>> # <<"YAML", "wrong">>

ListsOf(f, as_json) ==
    IF f.section = "present" /\ as_json = (f.syntax = "JSON") THEN f.lists ELSE Default

IsJson(f) == f.syntax = "JSON"

\* What a file says that nobody writes.
Says(f) == ListsOf(f, IsJson(f))

\* The topic of the type objects passes any allowlist.
Internal == "TypeObject"

WithInternalTopics(lists) ==
    IF lists.allowlist = {} THEN lists
    ELSE [lists EXCEPT !.allowlist = @ \cup {Internal}]

-----------------------------------------------------------------------------
(* create_dds_enabler.                                                     *)

\* is_json opens the file before it is read, if there is one at all.
Look ==
    /\ stage = "none"
    /\ \/ stage' = "looked" /\ looked' = file
          /\ UNCHANGED <<loaded, given>>
       \/ stage' = "unnamed" /\ loaded' = Default /\ given' = given \cup {Default}
          /\ UNCHANGED looked
    /\ UNCHANGED <<author, enabler, notified, reloading, delivering, reloads, torn, unseen,
                   superseded>>

\* What was no JSON when it was looked at is read as YAML.
Readable == Loads(file, IsJson(looked))
Reading == ListsOf(file, IsJson(looked))
Torn == looked # file \/ writing # None

Load ==
    /\ stage = "looked"
    /\ \/ Readable /\ stage' = "loaded" /\ loaded' = Reading /\ torn' = Torn
       \/ ~Readable /\ stage' = "refused" /\ UNCHANGED <<loaded, torn>>
    /\ looked' = None
    /\ UNCHANGED <<author, enabler, notified, reloading, delivering, reloads, given, unseen,
                   superseded>>

Construct ==
    /\ stage \in {"loaded", "unnamed"} /\ members = <<>>
    /\ members' = Declared
    /\ configuration_' = WithInternalTopics(loaded)
    /\ pipe' = WithInternalTopics(loaded)
    /\ UNCHANGED <<author, stage, loaded, callbacks_set, enabled, notified, looked, reloading,
                   delivering, reloads, history>>

SetInternalCallbacks ==
    /\ members # <<>> /\ ~callbacks_set
    /\ callbacks_set' = TRUE
    /\ UNCHANGED <<author, stage, loaded, members, enabled, configuration_, pipe, notified, looked,
                   reloading, delivering, reloads, history>>

\* A pipe that cannot be enabled takes the enabler with it.
Enable ==
    /\ callbacks_set /\ ~enabled
    /\ \/ /\ enabled' = TRUE
          /\ UNCHANGED <<stage, members, callbacks_set>>
       \/ /\ stage' = "refused" /\ members' = <<>> /\ callbacks_set' = FALSE
          /\ UNCHANGED enabled
    /\ UNCHANGED <<author, loaded, configuration_, pipe, notified, looked, reloading, delivering,
                   reloads, history>>

\* Without a file name there is nothing to watch, and false is returned of an
\* enabler that is running.
SetFileWatcher ==
    /\ enabled /\ stage \in {"loaded", "unnamed"}
    /\ stage' = IF stage = "loaded" THEN "watched" ELSE "unwatched"
    /\ UNCHANGED <<author, loaded, enabler, notified, looked, reloading, delivering, reloads, history>>

-----------------------------------------------------------------------------
(* The file and its watcher.                                               *)

Changed ==
    /\ edits' = edits + 1
    /\ notified' = (notified \/ stage = "watched")
    /\ unseen' = (stage \in {"looked", "loaded"})
    /\ superseded' = FALSE
    /\ UNCHANGED <<stage, loaded, enabler, looked, reloading, delivering, reloads, given, torn>>

\* A file is written in place or replaced as a whole.
OpenFile(f) ==
    /\ edits < MaxEdits /\ writing = None
    /\ file' = Emptied /\ writing' = f
    /\ Changed
    /\ UNCHANGED written

CloseFile ==
    /\ writing # None
    /\ file' = writing /\ writing' = None /\ written' = written \cup {writing}
    /\ Changed

ReplaceFile(f) ==
    /\ edits < MaxEdits /\ writing = None
    /\ file' = f /\ written' = written \cup {f}
    /\ Changed
    /\ UNCHANGED writing

\* The callback of the watcher reads the file, twice likewise, before it takes
\* the mutex.  An error is logged.
WatcherLooks ==
    /\ stage = "watched" /\ "file_watcher_handler_" \in Alive
    /\ notified /\ ~Reloading
    /\ notified' = FALSE
    /\ looked' = file
    /\ UNCHANGED <<author, stage, loaded, enabler, reloading, delivering, reloads, history>>

WatcherReads ==
    /\ stage = "watched" /\ looked # None
    /\ \/ Readable /\ reloading' = Reading /\ torn' = (torn \/ Torn)
       \/ ~Readable /\ UNCHANGED <<reloading, torn>>
    /\ looked' = None
    /\ UNCHANGED <<author, stage, loaded, enabler, notified, delivering, reloads, given, unseen,
                   superseded>>

\* Mutated form: the internal topics are loaded when the enabler is made only.
Applied_AsRead(lists) == lists

Applied(lists) == WithInternalTopics(lists)

\* Mutated form: the answers of the pipe are confused.
Taken_WhenNoData(lists) ==
    /\ pipe' = Applied(lists)
    /\ configuration_' = IF pipe = Applied(lists) THEN Applied(lists) ELSE configuration_

\* reload_configuration: the pipe takes the lists, has them already, or
\* refuses them.
Taken(lists) == /\ pipe' = Applied(lists)
                /\ configuration_' = IF pipe = Applied(lists) THEN configuration_
                                     ELSE Applied(lists)
Refused(lists) == pipe # Applied(lists) /\ UNCHANGED <<pipe, configuration_>>

WatcherReloads ==
    /\ reloading # None
    /\ \/ Taken(reloading) /\ UNCHANGED superseded
       \/ Refused(reloading) /\ superseded' = TRUE
    /\ reloading' = None
    /\ UNCHANGED <<author, stage, loaded, members, callbacks_set, enabled, notified, looked, delivering,
                   reloads, given, torn, unseen>>

ApplicationReloads(lists) ==
    /\ stage \in {"watched", "unwatched"} /\ "mutex_" \in Alive /\ reloads < MaxReloads
    /\ Taken(lists) \/ Refused(lists)
    /\ given' = given \cup {lists}
    /\ superseded' = TRUE /\ reloads' = reloads + 1
    /\ UNCHANGED <<author, stage, loaded, members, callbacks_set, enabled, notified, looked, reloading,
                   delivering, torn, unseen>>

-----------------------------------------------------------------------------
(* The end of the enabler, beside the threads that still run.              *)

DeliveryBegins ==
    /\ enabled /\ "pipe_" \in Alive /\ ~delivering
    /\ delivering' = TRUE
    /\ UNCHANGED <<author, stage, loaded, enabler, notified, looked, reloading, reloads, history>>

DeliveryEnds ==
    /\ delivering /\ delivering' = FALSE
    /\ UNCHANGED <<author, stage, loaded, enabler, notified, looked, reloading, reloads, history>>

\* The members are destroyed in the reverse order of their declaration.  The
\* watcher waits for its thread, the pipe for those that deliver.
DestroyMember ==
    /\ stage \in {"watched", "unwatched"} /\ members # <<>>
    /\ LET last == members[Len(members)] IN
          /\ last = "file_watcher_handler_" => ~Reloading
          /\ last = "pipe_" => ~delivering
    /\ members' = SubSeq(members, 1, Len(members) - 1)
    /\ UNCHANGED <<author, stage, loaded, callbacks_set, enabled, configuration_, pipe, notified, looked,
                   reloading, delivering, reloads, history>>

-----------------------------------------------------------------------------
Next ==
    \/ Look \/ Load \/ Construct \/ SetInternalCallbacks \/ Enable \/ SetFileWatcher
    \/ CloseFile \/ \E f \in Contents : OpenFile(f) \/ ReplaceFile(f)
    \/ WatcherLooks \/ WatcherReads \/ WatcherReloads
    \/ \E lists \in {Says(f) : f \in Contents} : ApplicationReloads(lists)
    \/ DeliveryBegins \/ DeliveryEnds \/ DestroyMember

Spec == Init /\ [][Next]_vars

\* The watcher's thread runs.  Nobody has to write the file, or to finish
\* writing it.
FairSpec ==
    Spec /\ WF_vars(WatcherLooks) /\ WF_vars(WatcherReads) /\ WF_vars(WatcherReloads)

-----------------------------------------------------------------------------
(* Properties.                                                             *)

\* The pipe and configuration_ have the same lists: those of one file, whole
\* and as the code parses it, or of the application, with the internal topic
\* in any allowlist.  A file without the section says the defaults, which let
\* every topic pass, and to the code a JSON file with a slip is one, since it
\* is read as YAML.  Any other stands for them only if written while it is read.
FilterIsAuthored ==
    LET authored == {Says(f) : f \in {g \in written : Loads(g, IsJson(g))}} \cup given
                    \cup (IF torn THEN {Default} ELSE {})
    IN  members # <<>> =>
            /\ configuration_ = pipe
            /\ pipe \in {WithInternalTopics(lists) : lists \in authored}

\* What a file says that stays as it is, in a running enabler, is applied in
\* the end, however its edits and the reloads of the application fall between
\* the reading of the file and its reload; unless it was last changed while
\* the enabler was made, or dropped for what the application passed.
Settled(f) == /\ stage = "watched" /\ members = Declared
              /\ file = f /\ writing = None /\ Loads(f, IsJson(f))
              /\ ~unseen /\ ~superseded

LastEditIsApplied ==
    \A f \in Contents :
        Settled(f) ~> ~Settled(f) \/ configuration_ = WithInternalTopics(Says(f))

\* A thread that is still inside the enabler finds what it uses: a reload the
\* pipe and the configuration, a delivery the handler, the participant that it
\* calls back into and the callbacks.  Excepted is mutex_, which is declared
\* last and so destroyed before the watcher's thread has ended.
ThreadsMeetMembers ==
    /\ Reloading => {"configuration_", "pipe_"} \subseteq Alive
    /\ delivering => /\ {"handler_", "enabler_participant_"} \subseteq Alive
                     /\ callbacks_set

=============================================================================
