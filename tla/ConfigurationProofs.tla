------------------------- MODULE ConfigurationProofs -------------------------
(***************************************************************************)
(* Theorems about Configuration, for any topics, any contents of the file  *)
(* and any number of edits and reloads.                                    *)
(*                                                                         *)
(* AuthorInv follows the lists from the file, or from the application, to  *)
(* the pipe: whatever is read while nobody writes was authored, and the    *)
(* lists that are read and not applied yet were too.  StandingInv follows  *)
(* the destruction: the members that are left are a prefix of those that   *)
(* are declared, long enough for the threads that still run but for        *)
(* mutex_, the last of them, which a reload may find destroyed.            *)
(***************************************************************************)
EXTENDS Configuration, SequenceTheorems, TLAPS

\* The lists that somebody has meant: the first part of FilterIsAuthored.
Authored == {Says(f) : f \in {g \in written : Loads(g, IsJson(g))}} \cup given
                \cup (IF torn THEN {Default} ELSE {})

\* A file that nobody is writing is one that was written.
FileInv == IF writing = None THEN file \in written ELSE file = Emptied

\* How far create_dds_enabler has come.
StageInv ==
    /\ torn \in BOOLEAN /\ enabled \in BOOLEAN /\ callbacks_set \in BOOLEAN
    /\ delivering \in BOOLEAN
    /\ stage \in {"none", "looked"} => members = <<>>
    /\ stage = "loaded" => looked = None
    /\ stage \in {"watched", "unwatched"} => enabled
    /\ enabled => callbacks_set
    /\ reloading # None => stage = "watched"
    /\ delivering => enabled

AuthorInv ==
    /\ stage \in {"loaded", "unnamed"} => loaded \in Authored
    /\ reloading # None => reloading \in Authored
    /\ members # <<>> => /\ configuration_ = pipe
                         /\ pipe \in {WithInternalTopics(lists) : lists \in Authored}

MemberNames == {"configuration_", "handler_", "enabler_participant_", "pipe_",
                "file_watcher_handler_", "mutex_"}

\* The members before the n-th destruction from the end.
Prefix(n) == SubSeq(Declared, 1, n)

StandingInv ==
    \E n \in 0..6 : /\ members = Prefix(n)
                    /\ Reloading => n >= 5
                    /\ delivering => n >= 4

IInv == FileInv /\ StageInv /\ AuthorInv /\ StandingInv

-----------------------------------------------------------------------------
(* Reading a file.                                                         *)

\* What is read of a file gives the lists of one that was written, or the
\* defaults if it was written meanwhile.
LEMMA ReadingLemma ==
    ASSUME FileInv, Readable
    PROVE  \/ file \in written /\ Loads(file, IsJson(file)) /\ Reading = Says(file)
           \/ Torn /\ Reading = Default
  <1>1. CASE writing # None
    <2>1. file = Emptied /\ Torn
      BY <1>1 DEF FileInv, Torn
    <2>2. file.section = "missing"
      BY <2>1 DEF Emptied
    <2> QED
      BY <2>1, <2>2 DEF Reading, ListsOf
  <1>2. CASE writing = None
    <2>1. file \in written
      BY <1>2 DEF FileInv
    <2>2. CASE IsJson(looked) = IsJson(file)
      BY <2>1, <2>2 DEF Readable, Reading, Says
    <2>3. CASE IsJson(looked) # IsJson(file)
      <3>1. looked # file
        BY <2>3
      <3>2. Reading = Default
        BY <2>3 DEF Reading, ListsOf, IsJson
      <3> QED
        BY <3>1, <3>2 DEF Torn
    <2> QED
      BY <2>2, <2>3
  <1> QED
    BY <1>1, <1>2

\* What is read is authored, once it is recorded whether the file was torn.
LEMMA ReadIsAuthored ==
    ASSUME FileInv, Readable, torn \in BOOLEAN,
           torn' = Torn \/ torn' = (torn \/ Torn), UNCHANGED <<written, given>>
    PROVE  Reading \in Authored'
  <1>1. CASE file \in written /\ Loads(file, IsJson(file)) /\ Reading = Says(file)
    BY <1>1 DEF Authored
  <1>2. CASE Torn /\ Reading = Default
    BY <1>2 DEF Authored
  <1> QED
    BY <1>1, <1>2, ReadingLemma

\* What was authored remains so.
LEMMA AuthoredGrows ==
    ASSUME written \subseteq written', given \subseteq given', torn \in BOOLEAN, torn => torn'
    PROVE  Authored \subseteq Authored'
  <1> SUFFICES ASSUME NEW lists \in Authored PROVE lists \in Authored'
    OBVIOUS
  <1>1. CASE lists \in {Says(f) : f \in {g \in written : Loads(g, IsJson(g))}}
    BY <1>1 DEF Authored
  <1>2. CASE lists \in given
    BY <1>2 DEF Authored
  <1>3. CASE torn /\ lists = Default
    BY <1>3 DEF Authored
  <1> QED
    BY <1>1, <1>2, <1>3 DEF Authored

-----------------------------------------------------------------------------
(* The members.                                                            *)

\* The members left are those before the last one.
LEMMA PrefixLemma ==
    /\ Prefix(0) = <<>> /\ Prefix(6) = Declared /\ Declared # <<>>
    /\ \A n \in 0..6 :
          /\ Len(Prefix(n)) = n /\ DOMAIN Prefix(n) = 1..n
          /\ \A i \in 1..n : Prefix(n)[i] = Declared[i]
          /\ n > 0 => SubSeq(Prefix(n), 1, n - 1) = Prefix(n - 1)
  <1>1. Declared \in Seq(MemberNames) /\ Len(Declared) = 6
    BY DEF Declared, MemberNames
  <1>2. ASSUME NEW n \in 0..6
        PROVE  /\ Prefix(n) \in Seq(MemberNames) /\ Len(Prefix(n)) = n
               /\ \A i \in 1..n : Prefix(n)[i] = Declared[i]
    <2>1. 1 \in Int /\ n \in Int /\ \A i \in 1..n : i \in 1..Len(Declared)
      BY <1>1
    <2>2. \A i \in 1..n : Declared[i] \in MemberNames
      BY <1>1, <2>1, ElementOfSeq
    <2>3. /\ Prefix(n) \in Seq(MemberNames)
          /\ Len(Prefix(n)) = IF 1 <= n THEN n - 1 + 1 ELSE 0
          /\ \A i \in 1..(n - 1 + 1) : Prefix(n)[i] = Declared[1 + i - 1]
      BY <2>1, <2>2, SubSeqProperties DEF Prefix
    <2> QED
      BY <2>3
  <1>3. ASSUME NEW n \in 1..6 PROVE SubSeq(Prefix(n), 1, n - 1) = Prefix(n - 1)
    <2>1. n \in 0..6 /\ n - 1 \in 0..6 /\ 1 \in Int /\ n - 1 \in Int
      OBVIOUS
    <2>2. \A i \in 1..(n - 1) : Prefix(n)[i] = Declared[i] /\ Prefix(n)[i] \in MemberNames
      <3>1. /\ Prefix(n) \in Seq(MemberNames) /\ Len(Prefix(n)) = n
            /\ \A i \in 1..n : Prefix(n)[i] = Declared[i]
        BY <1>2, <2>1
      <3>2. \A i \in 1..n : Prefix(n)[i] \in MemberNames
        BY <3>1, ElementOfSeq
      <3> QED
        BY <2>1, <3>1, <3>2
    <2> DEFINE cut == SubSeq(Prefix(n), 1, n - 1)
    <2>3. /\ cut \in Seq(MemberNames)
          /\ Len(cut) = IF 1 <= n - 1 THEN n - 1 - 1 + 1 ELSE 0
          /\ \A i \in 1..(n - 1 - 1 + 1) : cut[i] = Prefix(n)[1 + i - 1]
      BY <2>1, <2>2, SubSeqProperties
    <2>4. Len(cut) = n - 1 /\ \A i \in 1..(n - 1) : cut[i] = Declared[i]
      BY <2>1, <2>2, <2>3
    <2>5. /\ Prefix(n - 1) \in Seq(MemberNames) /\ Len(Prefix(n - 1)) = n - 1
          /\ \A i \in 1..(n - 1) : Prefix(n - 1)[i] = Declared[i]
      BY <1>2, <2>1
    <2> HIDE DEF cut
    <2>6. cut = Prefix(n - 1)
      BY <2>3, <2>4, <2>5, SeqEqual
    <2> QED
      BY <2>6 DEF cut
  <1>4. Prefix(0) = <<>>
    BY <1>2, EmptySeq
  <1>5. Prefix(6) = Declared
    <2>1. /\ Prefix(6) \in Seq(MemberNames) /\ Len(Prefix(6)) = 6
          /\ \A i \in 1..6 : Prefix(6)[i] = Declared[i]
      BY <1>2
    <2> HIDE DEF Prefix
    <2> QED
      BY <1>1, <2>1, SeqEqual
  <1>6. Declared # <<>>
    BY <1>1, EmptySeq
  <1>7. \A n \in 0..6 : DOMAIN Prefix(n) = 1..n
    BY <1>2, LenProperties
  <1> QED
    BY <1>2, <1>3, <1>4, <1>5, <1>6, <1>7

\* The members that the threads need come first.
LEMMA StandingIsEnough == StandingInv /\ StageInv => ThreadsMeetMembers
  <1> SUFFICES ASSUME StandingInv, StageInv PROVE ThreadsMeetMembers
    OBVIOUS
  <1>1. PICK n \in 0..6 : /\ members = Prefix(n)
                          /\ Reloading => n >= 5
                          /\ delivering => n >= 4
    BY DEF StandingInv
  <1>2. \A i \in 1..n : Declared[i] \in Alive
    BY <1>1, PrefixLemma DEF Alive
  <1>3. /\ n >= 1 => "configuration_" \in Alive
        /\ n >= 2 => "handler_" \in Alive
        /\ n >= 3 => "enabler_participant_" \in Alive
        /\ n >= 4 => "pipe_" \in Alive
    BY <1>2 DEF Declared
  <1> QED
    BY <1>1, <1>3 DEF ThreadsMeetMembers, StageInv

-----------------------------------------------------------------------------
(* The invariant is inductive.                                             *)

\* The invariant holds initially.
LEMMA InitIInv == Init => IInv
  <1> SUFFICES ASSUME Init PROVE IInv
    OBVIOUS
  <1>1. FileInv
    BY DEF Init, FileInv
  <1>2. StageInv
    BY DEF Init, StageInv
  <1>3. AuthorInv
    BY DEF Init, AuthorInv
  <1>4. ~Reloading /\ ~delivering /\ members = Prefix(0)
    BY PrefixLemma DEF Init, Reloading
  <1>5. StandingInv
    <2>1. 0 \in 0..6 /\ (Reloading => 0 >= 5) /\ (delivering => 0 >= 4)
      BY <1>4
    <2> QED
      BY <1>4, <2>1 DEF StandingInv
  <1> QED
    BY <1>1, <1>2, <1>3, <1>5 DEF IInv

\* A step that keeps the members and the threads inside them.
LEMMA SameStanding ==
    ASSUME StandingInv, members' = members,
           Reloading' => Reloading, delivering' => delivering
    PROVE  StandingInv'
  <1>1. PICK n \in 0..6 : /\ members = Prefix(n)
                          /\ Reloading => n >= 5
                          /\ delivering => n >= 4
    BY DEF StandingInv
  <1>2. /\ members' = Prefix(n)
        /\ Reloading' => n >= 5
        /\ delivering' => n >= 4
    BY <1>1
  <1> QED
    BY <1>2 DEF StandingInv

\* A step that leaves the lists alone and takes nothing from the authored ones.
LEMMA SameLists ==
    ASSUME AuthorInv, UNCHANGED <<loaded, configuration_, pipe>>,
           stage' \in {"loaded", "unnamed"} => stage \in {"loaded", "unnamed"},
           reloading' # None => reloading' = reloading \/ reloading' \in Authored',
           members' # <<>> => members # <<>>,
           Authored \subseteq Authored'
    PROVE  AuthorInv'
  <1>1. stage' \in {"loaded", "unnamed"} => loaded' \in Authored'
    BY DEF AuthorInv
  <1>2. reloading' # None => reloading' \in Authored'
    BY DEF AuthorInv
  <1>3. members' # <<>> => /\ configuration_' = pipe'
                           /\ pipe' \in {WithInternalTopics(lists) : lists \in Authored'}
    BY DEF AuthorInv
  <1> QED
    BY <1>1, <1>2, <1>3 DEF AuthorInv

\* create_dds_enabler, until it has read the file.
LEMMA InvRead == IInv /\ (Look \/ Load) => IInv'
  <1> SUFFICES ASSUME IInv, Look \/ Load PROVE IInv'
    OBVIOUS
  <1> USE DEF IInv
  <1>1. stage \in {"none", "looked"} /\ members = <<>> /\ members' = members
        /\ reloading = None /\ reloading' = None
        /\ UNCHANGED <<author, enabled, callbacks_set, delivering>>
    BY DEF Look, Load, enabler, StageInv
  <1>2. FileInv'
    BY <1>1 DEF FileInv, author
  <1>3. StageInv'
    BY <1>1 DEF Look, Load, StageInv, Torn
  <1>4. AuthorInv'
    <2>1. CASE Look
      <3>1. stage' \in {"loaded", "unnamed"} => loaded' = Default /\ Default \in given'
        BY <2>1 DEF Look
      <3> QED
        BY <1>1, <3>1 DEF AuthorInv, Authored
    <2>2. CASE Load
      <3>1. stage' \in {"loaded", "unnamed"} =>
                /\ Readable /\ loaded' = Reading /\ torn' = Torn
                /\ UNCHANGED <<written, given>>
        BY <2>2 DEF Load, author
      <3>2. stage' \in {"loaded", "unnamed"} => loaded' \in Authored'
        BY <3>1, ReadIsAuthored DEF StageInv
      <3> QED
        BY <1>1, <3>2 DEF AuthorInv
    <2> QED
      BY <2>1, <2>2
  <1>5. StandingInv'
    <2>1. ~Reloading'
      BY <1>1 DEF Look, Load, Reloading
    <2> QED
      BY <1>1, <2>1, SameStanding
  <1> QED
    BY <1>2, <1>3, <1>4, <1>5

\* The rest of create_dds_enabler.
LEMMA InvCreate ==
    IInv /\ (Construct \/ SetInternalCallbacks \/ Enable \/ SetFileWatcher) => IInv'
  <1> SUFFICES ASSUME IInv, Construct \/ SetInternalCallbacks \/ Enable \/ SetFileWatcher
               PROVE  IInv'
    OBVIOUS
  <1> USE DEF IInv
  <1>1. UNCHANGED <<author, loaded, looked, reloading, delivering, written, given, torn>>
    BY DEF Construct, SetInternalCallbacks, Enable, SetFileWatcher, author, history
  <1>2. FileInv'
    BY <1>1 DEF FileInv, author
  <1>3. Authored' = Authored
    BY <1>1 DEF Authored
  <1>4. CASE Construct
    <2>1. StageInv'
      BY <1>1, <1>4 DEF Construct, StageInv
    <2>2. AuthorInv'
      <3>1. /\ stage' = stage /\ stage \in {"loaded", "unnamed"}
            /\ configuration_' = WithInternalTopics(loaded)
            /\ pipe' = WithInternalTopics(loaded)
        BY <1>4 DEF Construct
      <3>2. loaded \in Authored
        BY <3>1 DEF AuthorInv
      <3> QED
        BY <1>1, <1>3, <3>1, <3>2 DEF AuthorInv
    <2>3. StandingInv'
      BY <1>4, PrefixLemma DEF Construct, StandingInv
    <2> QED
      BY <1>2, <2>1, <2>2, <2>3
  <1>5. CASE SetInternalCallbacks
    <2>1. StageInv'
      BY <1>1, <1>5 DEF SetInternalCallbacks, StageInv
    <2>2. AuthorInv'
      BY <1>1, <1>3, <1>5, SameLists DEF SetInternalCallbacks
    <2>3. StandingInv'
      BY <1>1, <1>5, SameStanding DEF SetInternalCallbacks, Reloading
    <2> QED
      BY <1>2, <2>1, <2>2, <2>3
  <1>6. CASE Enable
    <2>1. ~enabled /\ ~delivering /\ reloading = None /\ stage # "watched" /\ callbacks_set
      BY <1>6 DEF Enable, StageInv
    <2>2. /\ delivering' = delivering /\ reloading' = None /\ stage' # "watched"
          /\ torn' = torn /\ torn \in BOOLEAN
      BY <1>1, <1>6, <2>1 DEF Enable, StageInv
    <2>3. ~Reloading'
      BY <2>2 DEF Reloading
    <2>4. AuthorInv'
      BY <1>1, <1>3, <1>6, SameLists DEF Enable
    <2>5. CASE enabled' = TRUE /\ UNCHANGED <<stage, members, callbacks_set>>
      <3>1. StageInv'
        BY <1>1, <2>1, <2>2, <2>5 DEF StageInv
      <3>2. StandingInv'
        BY <2>1, <2>2, <2>3, <2>5, SameStanding
      <3> QED
        BY <1>2, <2>4, <3>1, <3>2
    <2>6. CASE /\ stage' = "refused" /\ members' = <<>> /\ callbacks_set' = FALSE
               /\ UNCHANGED enabled
      <3>1. StageInv'
        <4>1. /\ enabled \in BOOLEAN /\ delivering \in BOOLEAN
              /\ callbacks_set' \in BOOLEAN
          BY <2>6 DEF StageInv
        <4>2. ~enabled' /\ ~delivering' /\ enabled' \in BOOLEAN /\ delivering' \in BOOLEAN
          BY <2>1, <2>2, <2>6, <4>1
        <4>3. /\ stage' \notin {"none", "looked", "loaded", "watched", "unwatched"}
              /\ reloading' = None /\ torn' \in BOOLEAN
          BY <2>2, <2>6
        <4> QED
          BY <4>1, <4>2, <4>3 DEF StageInv
      <3>2. StandingInv'
        BY <2>1, <2>2, <2>3, <2>6, PrefixLemma DEF StandingInv
      <3> QED
        BY <1>2, <2>4, <3>1, <3>2
    <2> QED
      BY <1>6, <2>5, <2>6 DEF Enable
  <1>7. CASE SetFileWatcher
    <2>0. UNCHANGED <<members, callbacks_set, enabled, configuration_, pipe>>
      BY <1>7 DEF SetFileWatcher, enabler
    <2>1. StageInv'
      BY <1>1, <1>7, <2>0 DEF SetFileWatcher, StageInv
    <2>2. AuthorInv'
      BY <1>1, <1>3, <1>7, <2>0, SameLists DEF SetFileWatcher
    <2>3. ~Reloading'
      BY <1>1, <1>7 DEF SetFileWatcher, StageInv, Reloading
    <2>4. StandingInv'
      BY <1>1, <2>0, <2>3, SameStanding
    <2> QED
      BY <1>2, <2>1, <2>2, <2>4
  <1> QED
    BY <1>4, <1>5, <1>6, <1>7

\* Those who write the file.
LEMMA InvWrite ==
    IInv /\ (CloseFile \/ \E f \in Contents : OpenFile(f) \/ ReplaceFile(f)) => IInv'
  <1> SUFFICES ASSUME IInv, CloseFile \/ \E f \in Contents : OpenFile(f) \/ ReplaceFile(f)
               PROVE  IInv'
    OBVIOUS
  <1> USE DEF IInv
  <1>1. /\ UNCHANGED <<stage, loaded, enabler, looked, reloading, delivering, given, torn>>
        /\ written \subseteq written'
    BY DEF CloseFile, OpenFile, ReplaceFile, Changed
  <1>2. UNCHANGED <<members, callbacks_set, enabled, configuration_, pipe>>
    BY <1>1 DEF enabler
  <1>3. FileInv'
    BY ConfigurationAssumption DEF CloseFile, OpenFile, ReplaceFile, FileInv
  <1>4. StageInv'
    BY <1>1, <1>2 DEF StageInv
  <1>5. AuthorInv'
    BY <1>1, <1>2, AuthoredGrows, SameLists DEF StageInv
  <1>6. StandingInv'
    BY <1>1, <1>2, SameStanding DEF Reloading
  <1> QED
    BY <1>3, <1>4, <1>5, <1>6

\* The watcher's thread, until it has read the file.
LEMMA InvWatch == IInv /\ (WatcherLooks \/ WatcherReads) => IInv'
  <1> SUFFICES ASSUME IInv, WatcherLooks \/ WatcherReads PROVE IInv'
    OBVIOUS
  <1> USE DEF IInv
  <1>1. UNCHANGED <<author, stage, loaded, enabler, delivering, given>> /\ stage = "watched"
    BY DEF WatcherLooks, WatcherReads, history
  <1>2. UNCHANGED <<file, writing, written, members, callbacks_set, enabled, configuration_, pipe>>
    BY <1>1 DEF author, enabler
  <1>3. torn' \in BOOLEAN /\ (torn => torn')
    BY DEF WatcherLooks, WatcherReads, StageInv, history, Torn
  <1>4. FileInv'
    BY <1>2 DEF FileInv
  <1>5. StageInv'
    BY <1>1, <1>2, <1>3 DEF StageInv
  <1>6. Authored \subseteq Authored'
    BY <1>1, <1>2, <1>3, AuthoredGrows DEF StageInv
  <1>7. CASE WatcherLooks
    <2>1. AuthorInv'
      BY <1>1, <1>2, <1>6, <1>7, SameLists DEF WatcherLooks
    <2>2. StandingInv'
      <3>1. PICK n \in 0..6 : /\ members = Prefix(n)
                              /\ Reloading => n >= 5
                              /\ delivering => n >= 4
        BY DEF StandingInv
      <3>2. n >= 5
        <4>1. PICK i \in DOMAIN members : members[i] = "file_watcher_handler_"
          BY <1>7 DEF WatcherLooks, Alive
        <4>2. i \in 1..n /\ Declared[i] = "file_watcher_handler_"
          BY <3>1, <4>1, PrefixLemma
        <4>3. i >= 5
          BY <4>2 DEF Declared
        <4> QED
          BY <4>2, <4>3
      <3> QED
        BY <1>1, <1>2, <3>1, <3>2 DEF StandingInv
    <2> QED
      BY <1>4, <1>5, <2>1, <2>2
  <1>8. CASE WatcherReads
    <2>1. ASSUME Readable, reloading' = Reading, torn' = (torn \/ Torn)
          PROVE  reloading' \in Authored'
      BY <1>1, <1>2, <2>1, ReadIsAuthored DEF StageInv
    <2>2. reloading' = reloading \/ reloading' \in Authored'
      BY <1>8, <2>1 DEF WatcherReads
    <2>3. AuthorInv'
      <3>1. UNCHANGED <<stage, loaded, members, configuration_, pipe>>
        BY <1>1, <1>2
      <3> QED
        BY <1>6, <2>2, <3>1, SameLists
    <2>4. Reloading
      BY <1>8 DEF WatcherReads, Reloading
    <2>5. StandingInv'
      BY <1>1, <1>2, <2>4, SameStanding
    <2> QED
      BY <1>4, <1>5, <2>3, <2>5
  <1> QED
    BY <1>7, <1>8

\* A reload applies lists that are authored, or none.
LEMMA ReloadAuthored ==
    ASSUME AuthorInv, NEW lists \in Authored', Authored \subseteq Authored',
           Taken(lists) \/ Refused(lists), UNCHANGED <<stage, members, loaded>>,
           reloading' # None => reloading' = reloading
    PROVE  AuthorInv'
  <1>1. stage' \in {"loaded", "unnamed"} => loaded' \in Authored'
    BY DEF AuthorInv
  <1>2. reloading' # None => reloading' \in Authored'
    BY DEF AuthorInv
  <1>3. ASSUME members' # <<>>
        PROVE  /\ configuration_' = pipe'
               /\ pipe' \in {WithInternalTopics(l) : l \in Authored'}
    <2>1. configuration_ = pipe /\ pipe \in {WithInternalTopics(l) : l \in Authored}
      BY <1>3 DEF AuthorInv
    <2>2. CASE Taken(lists)
      BY <2>1, <2>2 DEF Taken, Applied
    <2>3. CASE Refused(lists)
      BY <2>1, <2>3 DEF Refused
    <2> QED
      BY <2>2, <2>3
  <1> QED
    BY <1>1, <1>2, <1>3 DEF AuthorInv

\* The two reloads.
LEMMA InvReload ==
    ASSUME IInv, NEW lists, WatcherReloads \/ ApplicationReloads(lists)
    PROVE  IInv'
  <1> USE DEF IInv
  <1>1. /\ UNCHANGED <<author, stage, loaded, members, callbacks_set, enabled, looked,
                       delivering, torn>>
        /\ given \subseteq given'
    BY DEF WatcherReloads, ApplicationReloads
  <1>2. UNCHANGED <<file, writing, written>>
    BY <1>1 DEF author
  <1>3. reloading' # None => reloading' = reloading
    BY DEF WatcherReloads, ApplicationReloads
  <1>4. FileInv'
    BY <1>2 DEF FileInv
  <1>5. StageInv'
    BY <1>1, <1>3 DEF StageInv
  <1>6. Authored \subseteq Authored'
    BY <1>1, <1>2, AuthoredGrows DEF StageInv
  <1>7. AuthorInv'
    <2>1. CASE WatcherReloads
      <3>1. reloading \in Authored' /\ (Taken(reloading) \/ Refused(reloading))
        BY <1>6, <2>1 DEF WatcherReloads, AuthorInv
      <3> QED
        BY <1>1, <1>3, <1>6, <3>1, ReloadAuthored
    <2>2. CASE ApplicationReloads(lists)
      <3>1. lists \in Authored' /\ (Taken(lists) \/ Refused(lists))
        BY <2>2 DEF ApplicationReloads, Authored
      <3> QED
        BY <1>1, <1>3, <1>6, <3>1, ReloadAuthored
    <2> QED
      BY <2>1, <2>2
  <1>8. Reloading' => Reloading
    BY <1>1, <1>3 DEF Reloading
  <1>9. StandingInv'
    BY <1>1, <1>8, SameStanding
  <1> QED
    BY <1>4, <1>5, <1>7, <1>9

\* The deliveries and the destruction.
LEMMA InvEnd == IInv /\ (DeliveryBegins \/ DeliveryEnds \/ DestroyMember) => IInv'
  <1> SUFFICES ASSUME IInv, DeliveryBegins \/ DeliveryEnds \/ DestroyMember PROVE IInv'
    OBVIOUS
  <1> USE DEF IInv
  <1>1. UNCHANGED <<author, stage, loaded, callbacks_set, enabled, configuration_, pipe,
                    looked, reloading, given, torn>>
    BY DEF DeliveryBegins, DeliveryEnds, DestroyMember, enabler, history
  <1>2. UNCHANGED <<file, writing, written>>
    BY <1>1 DEF author
  <1>3. FileInv'
    BY <1>2 DEF FileInv
  <1>4. Authored' = Authored
    BY <1>1, <1>2 DEF Authored
  <1>5. PICK n \in 0..6 : /\ members = Prefix(n)
                          /\ Reloading => n >= 5
                          /\ delivering => n >= 4
    BY DEF StandingInv
  <1>6. Reloading' = Reloading
    BY <1>1 DEF Reloading
  <1>7. CASE DeliveryBegins \/ DeliveryEnds
    <2>1. members' = members
      BY <1>7 DEF DeliveryBegins, DeliveryEnds, enabler
    <2>2. StageInv'
      BY <1>1, <1>7, <2>1 DEF StageInv, DeliveryBegins, DeliveryEnds
    <2>3. AuthorInv'
      BY <1>1, <1>4, <2>1, SameLists
    <2>4. delivering' => n >= 4
      <3>1. CASE DeliveryEnds
        BY <3>1 DEF DeliveryEnds
      <3>2. CASE DeliveryBegins
        <4>1. PICK i \in DOMAIN members : members[i] = "pipe_"
          BY <3>2 DEF DeliveryBegins, Alive
        <4>2. i \in 1..n /\ Declared[i] = "pipe_"
          BY <1>5, <4>1, PrefixLemma
        <4>3. i >= 4
          BY <4>2 DEF Declared
        <4> QED
          BY <4>2, <4>3
      <3> QED
        BY <1>7, <3>1, <3>2
    <2>5. StandingInv'
      BY <1>5, <1>6, <2>1, <2>4 DEF StandingInv
    <2> QED
      BY <1>3, <2>2, <2>3, <2>5
  <1>8. CASE DestroyMember
    <2>1. /\ delivering' = delivering
          /\ members # <<>> /\ members' = SubSeq(members, 1, Len(members) - 1)
          /\ members[Len(members)] = "file_watcher_handler_" => ~Reloading
          /\ members[Len(members)] = "pipe_" => ~delivering
          /\ stage \in {"watched", "unwatched"}
      BY <1>8 DEF DestroyMember
    <2>2. n \in 1..6 /\ Len(members) = n /\ members[n] = Declared[n]
      <3>1. n # 0
        BY <1>5, <2>1, PrefixLemma
      <3>2. n \in 1..6 /\ n \in 1..n
        BY <3>1
      <3>3. Len(Prefix(n)) = n /\ Prefix(n)[n] = Declared[n]
        BY <3>2, PrefixLemma
      <3> QED
        BY <1>5, <3>2, <3>3
    <2>3. n - 1 \in 0..6 /\ members' = Prefix(n - 1)
      <3>1. n > 0 /\ n - 1 \in 0..6
        BY <2>2
      <3>2. SubSeq(Prefix(n), 1, n - 1) = Prefix(n - 1)
        BY <3>1, PrefixLemma
      <3> QED
        BY <1>5, <2>1, <2>2, <3>1, <3>2
    <2>4. /\ Reloading' => n - 1 >= 5
          /\ delivering' => n - 1 >= 4
      <3>1. Declared[5] = "file_watcher_handler_" /\ Declared[4] = "pipe_"
        BY DEF Declared
      <3> QED
        BY <1>5, <1>6, <2>1, <2>2, <3>1
    <2>5. StandingInv'
      BY <2>3, <2>4 DEF StandingInv
    <2>6. StageInv'
      BY <1>1, <2>1 DEF StageInv
    <2>7. AuthorInv'
      BY <1>1, <1>4, <2>1, SameLists
    <2> QED
      BY <1>3, <2>5, <2>6, <2>7
  <1> QED
    BY <1>7, <1>8

\* Every step keeps the invariant.
LEMMA NextIInv == IInv /\ [Next]_vars => IInv'
  <1> SUFFICES ASSUME IInv, [Next]_vars PROVE IInv'
    OBVIOUS
  <1>1. CASE UNCHANGED vars
    <2>1. UNCHANGED <<file, writing, written, stage, loaded, members, callbacks_set, enabled,
                      configuration_, pipe, looked, reloading, delivering, given, torn>>
      BY <1>1 DEF vars, author, enabler, history
    <2>2. FileInv'
      BY <2>1 DEF FileInv, IInv
    <2>3. StageInv'
      BY <2>1 DEF StageInv, IInv
    <2>4. Authored' = Authored
      BY <2>1 DEF Authored
    <2>5. AuthorInv'
      BY <2>1, <2>4 DEF AuthorInv, IInv
    <2>6. StandingInv'
      BY <2>1, SameStanding DEF Reloading, IInv
    <2> QED
      BY <2>2, <2>3, <2>5, <2>6 DEF IInv
  <1> QED
    BY <1>1, InvRead, InvCreate, InvWrite, InvWatch, InvReload, InvEnd DEF Next

\* The invariant holds in every reachable state: what is read and applied was
\* authored, and no member but mutex_ goes before the threads that use it.
THEOREM InvariantHolds == Spec => []IInv
  BY InitIInv, NextIInv, PTL DEF Spec

-----------------------------------------------------------------------------

\* FilterIsAuthored (load_from_file, reload_configuration): the pipe always has
\* lists that somebody has meant, as the code parses them, with the internal
\* topic in them, and configuration_ has the same.
THEOREM FilterAuthored == Spec => []FilterIsAuthored
  <1>1. IInv => FilterIsAuthored
    BY DEF IInv, AuthorInv, Authored, FilterIsAuthored
  <1> QED
    BY <1>1, InvariantHolds, PTL

\* ThreadsMeetMembers (the members of DDSEnabler, in the order in which they
\* are destroyed): a reload finds the pipe and the configuration and a delivery
\* all that it uses.  It is not said of mutex_, which a reload locks and which
\* may be gone by then.
THEOREM ThreadsMeet == Spec => []ThreadsMeetMembers
  <1>1. IInv => ThreadsMeetMembers
    BY StandingIsEnough DEF IInv
  <1> QED
    BY <1>1, InvariantHolds, PTL

-----------------------------------------------------------------------------
(* The watcher leaves nothing behind.                                      *)

\* When the watcher has nothing more to do, what the file says is applied.
RestingIsApplied ==
    \A f \in Contents :
        Settled(f) /\ ~notified /\ ~Reloading =>
            configuration_ = WithInternalTopics(Says(f))

FilesInv ==
    /\ file \in Files /\ written \subseteq Files /\ writing \in Files \cup {None}
    /\ notified => stage = "watched"

\* What the file says has not been dropped for something else, and is not
\* going to change.
Undisturbed ==
    ~unseen /\ ~superseded /\ writing = None /\ Loads(file, IsJson(file))

\* Where what the file says is, from the first look at it to the pipe: the
\* one who has looked has seen this file, unless a notification waits.
AppliedInv ==
    /\ stage = "looked" /\ ~unseen => looked = file
    /\ stage = "loaded" /\ Undisturbed => loaded = Says(file)
    /\ stage = "loaded" /\ members # <<>> => pipe = WithInternalTopics(loaded)
    /\ stage = "watched" /\ ~notified /\ looked # None => looked = file
    /\ stage = "watched" /\ ~notified /\ Undisturbed =>
          /\ reloading # None => reloading = Says(file)
          /\ members # <<>> /\ ~Reloading => pipe = WithInternalTopics(Says(file))

\* What is read of a file is lists, which are not the absence of lists.
LEMMA ReadLists ==
    ASSUME NEW f \in Files, NEW as_json
    PROVE  ListsOf(f, as_json) \in Lists /\ ListsOf(f, as_json) # None
  <1>1. Default \in Lists
    BY DEF Default, Lists
  <1>2. f.lists \in Lists
    BY DEF Files
  <1> QED
    BY <1>1, <1>2, ConfigurationAssumption DEF ListsOf

\* There is always a file, and only the watcher's own thread is notified.
LEMMA FilesStep == IInv /\ FilesInv /\ [Next]_vars => FilesInv'
  <1> SUFFICES ASSUME IInv, FilesInv, [Next]_vars PROVE FilesInv'
    OBVIOUS
  <1> USE DEF FilesInv
  <1>1. Emptied \in Files /\ Contents \subseteq Files /\ None \notin Files
    <2>1. Default \in Lists
      BY DEF Default, Lists
    <2> QED
      BY <2>1, ConfigurationAssumption DEF Emptied, Files
  <1>2. CASE CloseFile \/ \E f \in Contents : OpenFile(f) \/ ReplaceFile(f)
    BY <1>1, <1>2 DEF CloseFile, OpenFile, ReplaceFile, Changed
  <1>3. CASE Look \/ Load \/ Construct \/ SetInternalCallbacks \/ Enable \/ SetFileWatcher
    <2>1. stage = "watched" => enabled
      BY DEF IInv, StageInv
    <2> QED
      BY <1>3, <2>1 DEF Look, Load, Construct, SetInternalCallbacks, Enable, SetFileWatcher,
                        author
  <1>4. CASE WatcherLooks \/ WatcherReads \/ WatcherReloads
             \/ \E lists \in {Says(f) : f \in Contents} : ApplicationReloads(lists)
    BY <1>4 DEF WatcherLooks, WatcherReads, WatcherReloads, ApplicationReloads, author
  <1>5. CASE DeliveryBegins \/ DeliveryEnds \/ DestroyMember \/ UNCHANGED vars
    BY <1>5 DEF DeliveryBegins, DeliveryEnds, DestroyMember, vars, author
  <1> QED
    BY <1>2, <1>3, <1>4, <1>5 DEF Next

\* create_dds_enabler hands what it has read of the file to the pipe.
LEMMA AppliedCreate ==
    ASSUME IInv, FilesInv, AppliedInv,
           Look \/ Load \/ Construct \/ SetInternalCallbacks \/ Enable \/ SetFileWatcher
    PROVE  AppliedInv'
  <1>1. /\ UNCHANGED <<file, writing, notified, unseen, superseded, reloading>>
        /\ Undisturbed' = Undisturbed /\ Says(file)' = Says(file)
    BY DEF Look, Load, Construct, SetInternalCallbacks, Enable, SetFileWatcher, author, history,
           Undisturbed
  <1>2. /\ stage \in {"none", "looked"} => members = <<>>
        /\ stage = "loaded" => looked = None
        /\ reloading # None => stage = "watched"
        /\ notified => stage = "watched"
    BY DEF IInv, StageInv, FilesInv
  <1>3. CASE Look
    BY <1>1, <1>2, <1>3 DEF Look, AppliedInv
  <1>4. CASE Load
    <2>1. stage = "looked" /\ stage' \in {"loaded", "refused"} /\ members' = <<>>
      BY <1>2, <1>4 DEF Load, enabler
    <2>2. stage' = "loaded" => loaded' = Reading
      BY <1>4 DEF Load
    <2>3. ~unseen => Reading = Says(file)
      BY <2>1 DEF AppliedInv, Reading, Says
    <2> QED
      BY <1>1, <2>1, <2>2, <2>3 DEF AppliedInv, Undisturbed
  <1>5. CASE Construct
    <2>1. /\ stage \in {"loaded", "unnamed"} /\ UNCHANGED <<stage, loaded, looked>>
          /\ pipe' = WithInternalTopics(loaded)
      BY <1>5 DEF Construct
    <2> QED
      BY <1>1, <2>1 DEF AppliedInv
  <1>6. CASE SetInternalCallbacks
    BY <1>1, <1>6 DEF SetInternalCallbacks, AppliedInv, Reloading
  <1>7. CASE Enable
    <2>1. UNCHANGED <<pipe, loaded, looked>> /\ members' \in {members, <<>>}
          /\ stage' \in {stage, "refused"}
      BY <1>7 DEF Enable
    <2> QED
      BY <1>1, <2>1 DEF AppliedInv, Reloading
  <1>8. CASE SetFileWatcher
    <2>1. UNCHANGED <<pipe, loaded, looked, members>> /\ stage \in {"loaded", "unnamed"}
          /\ stage' = IF stage = "loaded" THEN "watched" ELSE "unwatched"
      BY <1>8 DEF SetFileWatcher, enabler
    <2>2. reloading' = None /\ (stage = "loaded" => looked' = None)
      BY <1>1, <1>2, <2>1
    <2> QED
      BY <1>1, <2>1, <2>2 DEF AppliedInv
  <1> QED
    BY <1>3, <1>4, <1>5, <1>6, <1>7, <1>8

\* Whoever changes the file is seen by the watcher, or before it is set.
LEMMA AppliedWrite ==
    ASSUME AppliedInv, CloseFile \/ \E f \in Contents : OpenFile(f) \/ ReplaceFile(f)
    PROVE  AppliedInv'
  <1>1. Changed
    BY DEF CloseFile, OpenFile, ReplaceFile
  <1>2. /\ UNCHANGED <<stage, loaded, members, pipe, looked, reloading>>
        /\ stage = "watched" => notified'
        /\ stage \in {"looked", "loaded"} => unseen'
    BY <1>1 DEF Changed, enabler
  <1> QED
    BY <1>2 DEF AppliedInv, Undisturbed

\* The watcher's thread: it looks at the file as it is, reads what it has
\* seen, and the pipe takes that or drops it.
LEMMA AppliedWatch ==
    ASSUME IInv, FilesInv, AppliedInv, WatcherLooks \/ WatcherReads \/ WatcherReloads
    PROVE  AppliedInv'
  <1>1. UNCHANGED <<file, writing, stage, loaded, members, unseen>> /\ Says(file)' = Says(file)
    BY DEF WatcherLooks, WatcherReads, WatcherReloads, author, enabler, history
  <1>2. file # None /\ Reading \in Lists /\ Reading # None /\ Says(file) # None
    BY ReadLists, ConfigurationAssumption DEF FilesInv, Reading, Says
  <1>3. stage = "watched"
    BY DEF WatcherLooks, WatcherReads, WatcherReloads, IInv, StageInv
  <1>4. CASE WatcherLooks
    <2>1. looked' = file /\ reloading' = None
      BY <1>4 DEF WatcherLooks, Reloading
    <2> QED
      BY <1>1, <1>2, <1>3, <2>1 DEF AppliedInv, Reloading
  <1>5. CASE WatcherReads
    <2>1. /\ looked # None /\ looked' = None
          /\ UNCHANGED <<notified, superseded, pipe>>
          /\ \/ Readable /\ reloading' = Reading
             \/ ~Readable /\ UNCHANGED reloading
      BY <1>5 DEF WatcherReads, enabler
    <2>2. Undisturbed' = Undisturbed
      BY <1>1, <2>1 DEF Undisturbed
    <2>3. ~notified /\ Undisturbed => Readable /\ Reading = Says(file)
      BY <1>3, <2>1 DEF AppliedInv, Undisturbed, Readable, Reading, Says
    <2> QED
      BY <1>1, <1>2, <1>3, <2>1, <2>2, <2>3 DEF AppliedInv, Reloading
  <1>6. CASE WatcherReloads
    <2>1. /\ reloading # None /\ reloading' = None
          /\ UNCHANGED <<notified, looked>>
          /\ \/ pipe' = WithInternalTopics(reloading) /\ UNCHANGED superseded
             \/ superseded'
      BY <1>6 DEF WatcherReloads, Taken, Applied
    <2>2. Undisturbed' => Undisturbed /\ pipe' = WithInternalTopics(reloading)
      <3>1. Undisturbed' => ~superseded'
        BY DEF Undisturbed
      <3>2. CASE pipe' = WithInternalTopics(reloading) /\ UNCHANGED superseded
        BY <1>1, <3>2 DEF Undisturbed
      <3> QED
        BY <2>1, <3>1, <3>2
    <2>3. ~notified /\ Undisturbed => reloading = Says(file)
      BY <1>3, <2>1 DEF AppliedInv
    <2> QED
      BY <1>1, <1>3, <2>1, <2>2, <2>3 DEF AppliedInv
  <1> QED
    BY <1>4, <1>5, <1>6

\* The other steps apply nothing of the file: the application drops what it
\* says for what it passes.
LEMMA AppliedOther ==
    ASSUME AppliedInv,
           \/ \E lists \in {Says(f) : f \in Contents} : ApplicationReloads(lists)
           \/ DeliveryBegins \/ DeliveryEnds \/ DestroyMember \/ UNCHANGED vars
    PROVE  AppliedInv'
  <1>1. UNCHANGED <<file, writing, stage, loaded, notified, unseen, looked, reloading>>
        /\ Says(file)' = Says(file)
    BY DEF ApplicationReloads, DeliveryBegins, DeliveryEnds, DestroyMember, author, history, vars
  <1>2. ASSUME NEW lists, ApplicationReloads(lists) PROVE AppliedInv'
    <2>1. superseded' /\ stage # "loaded"
      BY <1>2 DEF ApplicationReloads
    <2> QED
      BY <1>1, <2>1 DEF AppliedInv, Undisturbed
  <1>3. CASE DeliveryBegins \/ DeliveryEnds \/ DestroyMember \/ UNCHANGED vars
    <2>1. /\ UNCHANGED <<superseded, pipe>>
          /\ members' # <<>> => members # <<>>
      BY <1>3 DEF DeliveryBegins, DeliveryEnds, DestroyMember, enabler, history, vars
    <2>2. Undisturbed' = Undisturbed /\ Reloading' = Reloading
      BY <1>1, <2>1 DEF Undisturbed, Reloading
    <2> QED
      BY <1>1, <2>1, <2>2 DEF AppliedInv
  <1> QED
    BY <1>2, <1>3

\* No edit of the file is overlooked and none is overtaken by an earlier one:
\* when the watcher has no notification left and is not reading or reloading,
\* what the file says is what the pipe and configuration_ have, unless it was
\* last changed while the enabler was made, or dropped for the application's.
THEOREM RestingApplied == Spec => []RestingIsApplied
  <1>1. Init => FilesInv /\ AppliedInv
    BY ConfigurationAssumption DEF Init, FilesInv, AppliedInv
  <1>2. IInv /\ FilesInv /\ AppliedInv /\ [Next]_vars => AppliedInv'
    BY AppliedCreate, AppliedWrite, AppliedWatch, AppliedOther DEF Next
  <1>3. IInv /\ AppliedInv => RestingIsApplied
    <2> SUFFICES ASSUME IInv, AppliedInv, NEW f \in Contents, Settled(f), ~notified, ~Reloading
                 PROVE  configuration_ = WithInternalTopics(Says(f))
      BY DEF RestingIsApplied
    <2>1. /\ stage = "watched" /\ file = f /\ members # <<>>
          /\ Undisturbed
      BY DEF Settled, Undisturbed, Declared
    <2>2. configuration_ = pipe
      BY <2>1 DEF IInv, AuthorInv
    <2> QED
      BY <2>1, <2>2 DEF AppliedInv
  <1> QED
    BY <1>1, <1>2, <1>3, FilesStep, InvariantHolds, PTL DEF Spec

=============================================================================
