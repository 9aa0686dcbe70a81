--------------------------- MODULE ObserverProofs ---------------------------
(***************************************************************************)
(* Proofs about an observer's page and the container that streams it, for  *)
(* every value of the constants: the run of the container (StreamCapture), *)
(* the page's camera (ObserverFollow), how the page connects and shows the *)
(* game (ObserverClient), and the batches of its timers (EventAggregator). *)
(***************************************************************************)
EXTENDS TimedParts, ObserverClient, TLAPS

-----------------------------------------------------------------------------
(***************************************************************************)
(* StreamCapture: its types, and that whatever ends when, a recording that *)
(* is uploaded is not written and a run that has ended has left nothing    *)
(* behind.                                                                 *)
(***************************************************************************)

\* How far the shutdown has come says what can still be there.
Early == capture.step \in {"launch", "navigate", "start"} => ffmpeg = "none" /\ upload = "none"
Streams == capture.step = "streaming" => ffmpeg # "asked" /\ upload = "none"
Stopped == capture.step = "stopping" => ffmpeg # "recording" /\ upload = "none"
Late == capture.step \in {"upload", "closing", "lingering", "ended"} => ~Writing
Shut == capture.step \in {"lingering", "ended"} => browser # "open"
Uploads == upload = "active" => ~Writing

\* Whoever sleeps has an attempt left.
Rested == {c \in Captures : c.sleeping => c.try < MaxTries}

StreamInv == /\ StreamTypeOK /\ capture \in Rested
             /\ Early /\ Streams /\ Stopped /\ Late /\ Shut /\ Uploads

-----------------------------------------------------------------------------
(***************************************************************************)
(* The parts of shutdown()                                                 *)
(***************************************************************************)

LEMMA FreshType == Fresh \in Rested /\ Fresh.step = "launch"
  BY StreamAssumption DEF Fresh, Rested, Captures, Steps

LEMMA RestedType == Rested \subseteq Captures
  BY DEF Rested

LEMMA InitStreamInv == Init_stream => StreamInv
<1> SUFFICES ASSUME Init_stream PROVE StreamInv
  OBVIOUS
<1>1. /\ capture \in Rested /\ capture.step = "launch"
      /\ browser = "none" /\ ffmpeg = "none" /\ backup = "none" /\ upload = "none"
      /\ signals = 0 /\ restarts = 0
  BY FreshType DEF Init_stream
<1>2. 0 \in 0..MaxSignals /\ 0 \in 0..MaxRestarts
  BY StreamAssumption
<1> QED BY <1>1, <1>2, RestedType
        DEF StreamInv, StreamTypeOK, Processes, Early, Streams, Stopped,
            Late, Shut, Uploads, Writing

\* The upload begins, or there is nothing to upload, once FFmpeg is not writing.
LEMMA UploadBegins ==
  ASSUME NEW c \in Rested, uploadBackupToGCS(c), upload = "none"
  PROVE  /\ capture' \in Rested /\ capture'.step \in {"upload", "closing"}
         /\ upload' \in {"none", "active"}
<1>1. CASE Bucket /\ backup' # "none"
  <2>1. /\ capture' = [c EXCEPT !.step = "upload", !.uploadTimer = TRUE]
        /\ upload' = "active"
    BY <1>1 DEF uploadBackupToGCS
  <2> QED BY <2>1 DEF Rested, Captures, Steps
<1>2. CASE ~(Bucket /\ backup' # "none")
  <2>1. capture' = [c EXCEPT !.step = "closing"] /\ upload' = upload
    BY <1>2 DEF uploadBackupToGCS
  <2> QED BY <2>1 DEF Rested, Captures, Steps
<1> QED BY <1>1, <1>2

\* shutdown() waits for an FFmpeg, or begins the upload without one.
LEMMA ShutdownBegins ==
  ASSUME NEW c \in Rested, shutdown(c), upload = "none", ffmpeg # "asked", ffmpeg \in Processes
  PROVE  /\ capture' \in Rested /\ backup' = backup
         /\ \/ /\ capture'.step \in {"upload", "closing"} /\ ffmpeg' = "none"
               /\ upload' \in {"none", "active"}
            \/ /\ capture'.step = "stopping" /\ upload' = "none"
               /\ ffmpeg' \in {"mute", "asked", "done", "broken", "killed"}
<1>1. CASE ffmpeg = "none"
  <2>1. ffmpeg' = "none" /\ backup' = backup /\ uploadBackupToGCS(c)
    BY <1>1 DEF shutdown
  <2> QED BY <2>1, UploadBegins
<1>2. CASE ffmpeg # "none"
  <2>1. /\ ffmpeg' = IF ffmpeg = "recording" THEN "asked" ELSE ffmpeg
        /\ capture' = [c EXCEPT !.step = "stopping", !.killTimer = TRUE]
        /\ backup' = backup /\ upload' = upload
    BY <1>2 DEF shutdown
  <2>2. capture' \in Rested /\ capture'.step = "stopping"
    BY <2>1 DEF Rested, Captures, Steps
  <2> QED BY <1>2, <2>1, <2>2 DEF Processes
<1> QED BY <1>1, <1>2

\* What shutdown() leaves satisfies the invariant.
LEMMA ShutdownInv ==
  ASSUME StreamInv, NEW c \in Rested, shutdown(c), upload = "none", ffmpeg # "asked",
         browser' \in {"none", "open", "closed"}, signals' = signals, restarts' = restarts
  PROVE  StreamInv'
<1>1. /\ capture' \in Rested /\ backup' = backup
      /\ \/ /\ capture'.step \in {"upload", "closing"} /\ ffmpeg' = "none"
            /\ upload' \in {"none", "active"}
         \/ /\ capture'.step = "stopping" /\ upload' = "none"
            /\ ffmpeg' \in {"mute", "asked", "done", "broken", "killed"}
  BY ShutdownBegins DEF StreamInv, StreamTypeOK
<1>2. StreamTypeOK'
  BY <1>1, RestedType DEF StreamInv, StreamTypeOK, Processes
<1> QED BY <1>1, <1>2 DEF StreamInv, Early, Streams, Stopped,
            Late, Shut, Uploads, Writing

\* The same of an upload that begins after FFmpeg has ended.
LEMMA UploadInv ==
  ASSUME StreamInv, NEW c \in Rested, uploadBackupToGCS(c), upload = "none",
         ffmpeg' \in Processes, ~(ffmpeg' \in {"recording", "asked"}),
         backup' \in {"none", "partial", "complete"},
         browser' = browser, signals' = signals, restarts' = restarts
  PROVE  StreamInv'
<1>1. /\ capture' \in Rested /\ capture'.step \in {"upload", "closing"}
      /\ upload' \in {"none", "active"}
  BY UploadBegins
<1>2. StreamTypeOK'
  BY <1>1, RestedType DEF StreamInv, StreamTypeOK
<1> QED BY <1>1, <1>2 DEF StreamInv, Early, Streams, Stopped,
            Late, Shut, Uploads, Writing

-----------------------------------------------------------------------------
(***************************************************************************)
(* The steps of run()                                                      *)
(***************************************************************************)

LEMMA FailedType == capture \in Rested => [capture EXCEPT !.failed = TRUE] \in Rested
  BY DEF Rested, Captures

LEMMA RetryType ==
  ASSUME capture \in Rested, capture.try < MaxTries
  PROVE  /\ [capture EXCEPT !.sleeping = TRUE] \in Rested
         /\ [capture EXCEPT !.sleeping = TRUE].step = capture.step
  BY DEF Rested, Captures

\* An attempt that failed is made again, or run() gives up.
LEMMA RetriesInv ==
  ASSUME StreamInv, Retries, capture.step \in {"launch", "navigate", "start"},
         browser' = browser, signals' = signals, restarts' = restarts
  PROVE  StreamInv'
<1>0. capture \in Rested /\ ffmpeg = "none" /\ upload = "none"
  BY DEF StreamInv, StreamTypeOK, Early
<1>1. CASE capture.try < MaxTries
  <2>1. /\ capture' = [capture EXCEPT !.sleeping = TRUE]
        /\ UNCHANGED <<ffmpeg, backup, upload>>
    BY <1>1 DEF Retries
  <2>2. capture' \in Rested /\ capture'.step = capture.step
    BY <1>0, <1>1, <2>1, RetryType
  <2> QED BY <2>1, <2>2, RestedType
          DEF StreamInv, StreamTypeOK, Early, Streams, Stopped,
            Late, Shut, Uploads, Writing
<1>2. CASE ~(capture.try < MaxTries)
  <2>1. shutdown([capture EXCEPT !.failed = TRUE])
    BY <1>2 DEF Retries, Fails
  <2>2. browser' \in {"none", "open", "closed"}
    BY DEF StreamInv, StreamTypeOK
  <2> QED BY <1>0, <2>1, <2>2, FailedType, ShutdownInv
<1> QED BY <1>1, <1>2

LEMMA LaunchInv == ASSUME StreamInv, launchBrowser PROVE StreamInv'
<1>0. capture \in Rested /\ ffmpeg = "none" /\ upload = "none"
  BY DEF StreamInv, StreamTypeOK, Early, launchBrowser
<1>1. CASE /\ browser' = "open" /\ capture' = [capture EXCEPT !.step = "navigate"]
           /\ UNCHANGED <<ffmpeg, backup, upload>>
  <2>1. capture' \in Rested /\ capture'.step = "navigate"
    BY <1>0, <1>1 DEF Rested, Captures, Steps
  <2>2. signals' = signals /\ restarts' = restarts
    BY DEF launchBrowser
  <2> QED BY <1>0, <1>1, <2>1, <2>2, RestedType
          DEF StreamInv, StreamTypeOK, Early, Streams, Stopped,
            Late, Shut, Uploads, Writing
<1>2. CASE browser' \in {"none", "open"} /\ Fails
  <2>1. signals' = signals /\ restarts' = restarts
    BY DEF launchBrowser
  <2>2. shutdown([capture EXCEPT !.failed = TRUE])
    BY <1>2 DEF Fails
  <2> QED BY <1>0, <1>2, <2>1, <2>2, FailedType, ShutdownInv
<1> QED BY <1>1, <1>2 DEF launchBrowser

LEMMA NavigateInv == ASSUME StreamInv, navigateToGame PROVE StreamInv'
<1>0. /\ capture \in Rested /\ ffmpeg = "none" /\ upload = "none"
      /\ capture.step = "navigate"
      /\ browser' = browser /\ signals' = signals /\ restarts' = restarts
  BY DEF StreamInv, StreamTypeOK, Early, navigateToGame, Tries
<1>1. CASE /\ capture' = [capture EXCEPT !.step = "start", !.try = 1]
           /\ UNCHANGED <<ffmpeg, backup, upload>>
  <2>0. 1 \in 1..MaxTries /\ ~capture.sleeping
    BY StreamAssumption DEF navigateToGame, Tries
  <2>1. capture' \in Rested /\ capture'.step = "start"
    BY <1>0, <1>1, <2>0 DEF Rested, Captures, Steps
  <2> QED BY <1>0, <1>1, <2>1, RestedType
          DEF StreamInv, StreamTypeOK, Early, Streams, Stopped,
            Late, Shut, Uploads, Writing
<1>2. CASE Retries
  BY <1>0, <1>2, RetriesInv
<1> QED BY <1>1, <1>2 DEF navigateToGame

LEMMA StartInv == ASSUME StreamInv, startFfmpeg PROVE StreamInv'
<1>0. /\ capture \in Rested /\ ffmpeg = "none" /\ upload = "none"
      /\ capture.step = "start"
      /\ browser' = browser /\ signals' = signals /\ restarts' = restarts
  BY DEF StreamInv, StreamTypeOK, Early, startFfmpeg, Tries
<1>1. CASE /\ ffmpeg' \in {"recording", "mute"}
           /\ backup' = IF ffmpeg' = "recording" THEN "partial" ELSE backup
           /\ capture' = [capture EXCEPT !.step = "streaming", !.listening = TRUE]
           /\ UNCHANGED upload
  <2>1. capture' \in Rested /\ capture'.step = "streaming"
    BY <1>0, <1>1 DEF Rested, Captures, Steps
  <2> QED BY <1>0, <1>1, <2>1, RestedType
          DEF StreamInv, StreamTypeOK, Processes, Early, Streams, Stopped,
            Late, Shut, Uploads, Writing
<1>2. CASE Retries
  BY <1>0, <1>2, RetriesInv
<1> QED BY <1>1, <1>2 DEF startFfmpeg

LEMMA StopInv == ASSUME StreamInv, Stop PROVE StreamInv'
<1>1. /\ capture \in Rested /\ upload = "none" /\ ffmpeg # "asked"
      /\ browser' \in {"none", "open", "closed"}
      /\ signals' = signals /\ restarts' = restarts /\ shutdown(capture)
  BY DEF StreamInv, StreamTypeOK, Streams, Stop
<1> QED BY <1>1, ShutdownInv

LEMMA WakesInv == ASSUME StreamInv, Wakes PROVE StreamInv'
<1>1. capture \in Captures /\ capture.sleeping /\ capture.try < MaxTries
  BY DEF StreamInv, Wakes, Rested
<1>2. capture.try \in 1..MaxTries
  BY <1>1 DEF Captures
<1>3. capture.try + 1 \in 1..MaxTries
  BY <1>1, <1>2, StreamAssumption
<1>4. capture' = [capture EXCEPT !.sleeping = FALSE, !.try = capture.try + 1]
  BY DEF Wakes
<1>5. capture' \in Rested /\ capture'.step = capture.step
  BY <1>1, <1>3, <1>4 DEF Rested, Captures
<1> QED BY <1>5, RestedType
        DEF Wakes, StreamInv, StreamTypeOK, Early, Streams, Stopped,
            Late, Shut, Uploads, Writing

-----------------------------------------------------------------------------
(***************************************************************************)
(* The steps of shutdown(), and those around run()                         *)
(***************************************************************************)

LEMMA KillInv == ASSUME StreamInv, KillTimeout PROVE StreamInv'
<1>1. capture \in Rested /\ upload = "none" /\ ffmpeg # "recording" /\ ffmpeg \in Processes
  BY DEF StreamInv, StreamTypeOK, Stopped, KillTimeout
<1>2. /\ ffmpeg' = IF ffmpeg = "asked" THEN "killed" ELSE ffmpeg
      /\ browser' = browser /\ backup' = backup /\ signals' = signals /\ restarts' = restarts
      /\ uploadBackupToGCS([capture EXCEPT !.killTimer = FALSE])
  BY DEF KillTimeout
<1>3. [capture EXCEPT !.killTimer = FALSE] \in Rested
  BY <1>1 DEF Rested, Captures
<1>4. ffmpeg' \in Processes /\ ~(ffmpeg' \in {"recording", "asked"})
  BY <1>1, <1>2 DEF Processes
<1>5. backup' \in {"none", "partial", "complete"}
  BY <1>2 DEF StreamInv, StreamTypeOK
<1> QED BY <1>1, <1>2, <1>3, <1>4, <1>5, UploadInv

\* Steps that move on from the upload.
LEMMA MovesOn ==
  ASSUME StreamInv, capture' \in Rested, ffmpeg' = ffmpeg, browser' = browser, backup' = backup,
         signals' = signals, restarts' = restarts,
         upload' \in {"none", "active", "done", "failed"},
         upload' = "active" => upload = "active",
         upload # "active" => upload' = upload,
         \/ capture'.step = capture.step
         \/ capture.step = "upload" /\ capture'.step = "closing"
  PROVE  StreamInv'
<1>1. StreamTypeOK'
  BY RestedType DEF StreamInv, StreamTypeOK
<1> QED BY <1>1 DEF StreamInv, Early, Streams, Stopped,
            Late, Shut, Uploads, Writing

LEMMA UploadTimeoutInv == ASSUME StreamInv, UploadTimeout PROVE StreamInv'
<1>1. capture \in Rested
  BY DEF StreamInv
<1>2. /\ capture' = [capture EXCEPT !.uploadTimer = FALSE,
                                   !.step = IF @ = "upload" THEN "closing" ELSE @]
      /\ UNCHANGED <<browser, ffmpeg, backup, upload, signals, restarts>>
  BY DEF UploadTimeout
<1>3. /\ capture' \in Rested
      /\ capture'.step = IF capture.step = "upload" THEN "closing" ELSE capture.step
  BY <1>1, <1>2 DEF Rested, Captures, Steps
<1> QED BY <1>2, <1>3, MovesOn DEF StreamInv, StreamTypeOK

LEMMA UploadSettlesInv == ASSUME StreamInv, UploadSettles PROVE StreamInv'
<1>1. capture \in Rested
  BY DEF StreamInv
<1>2. /\ capture' = [capture EXCEPT !.step = IF @ = "upload" THEN "closing" ELSE @]
      /\ UNCHANGED <<browser, ffmpeg, backup, signals, restarts>>
      /\ upload = "active" /\ upload' \in {"done", "failed"}
  BY DEF UploadSettles
<1>3. /\ capture' \in Rested
      /\ capture'.step = IF capture.step = "upload" THEN "closing" ELSE capture.step
  BY <1>1, <1>2 DEF Rested, Captures, Steps
<1> QED BY <1>2, <1>3, MovesOn

LEMMA CloseInv == ASSUME StreamInv, CloseBrowser PROVE StreamInv'
<1>1. capture \in Rested /\ capture.step = "closing"
  BY DEF StreamInv, CloseBrowser
<1>2. /\ browser' = IF browser = "open" THEN "closed" ELSE browser
      /\ capture' = IF capture.failed THEN [capture EXCEPT !.step = "ended", !.uploadTimer = FALSE]
                    ELSE [capture EXCEPT !.step = "lingering"]
      /\ UNCHANGED <<ffmpeg, backup, upload, signals, restarts>>
  BY DEF CloseBrowser, Ends
<1>3. capture' \in Rested /\ capture'.step \in {"ended", "lingering"}
  <2>1. CASE capture.failed
    BY <1>1, <1>2, <2>1 DEF Rested, Captures, Steps
  <2>2. CASE ~capture.failed
    BY <1>1, <1>2, <2>2 DEF Rested, Captures, Steps
  <2> QED BY <2>1, <2>2
<1>4. ~Writing
  BY <1>1 DEF StreamInv, Late
<1>5. browser' # "open" /\ browser' \in {"none", "open", "closed"}
  BY <1>2 DEF StreamInv, StreamTypeOK
<1>6. StreamTypeOK'
  BY <1>2, <1>3, <1>5, RestedType DEF StreamInv, StreamTypeOK
<1> QED BY <1>2, <1>3, <1>4, <1>5, <1>6
        DEF StreamInv, Early, Streams, Stopped,
            Late, Shut, Uploads, Writing

LEMMA ExitInv == ASSUME StreamInv, Exit PROVE StreamInv'
<1>1. capture' \in Rested /\ capture'.step = "ended" /\ capture.step = "lingering"
  BY DEF StreamInv, Exit, Rested, Captures, Steps
<1> QED BY <1>1, RestedType
        DEF Exit, StreamInv, StreamTypeOK, Early, Streams, Stopped,
            Late, Shut, Uploads, Writing

\* Only a shutdown that waits has told FFmpeg to end.
LEMMA FfmpegInv == ASSUME StreamInv, FfmpegExits PROVE StreamInv'
<1>1. CASE /\ ffmpeg = "recording" /\ ffmpeg' = "broken"
           /\ backup' \in {"partial", "complete"}
           /\ UNCHANGED <<capture, upload>>
  BY <1>1 DEF FfmpegExits, StreamInv, StreamTypeOK, Processes, Early, Streams, Stopped, Late, Shut,
              Uploads, Writing
<1>2. CASE /\ ffmpeg = "asked" /\ ffmpeg' = "done" /\ backup' = "complete"
           /\ uploadBackupToGCS([capture EXCEPT !.killTimer = FALSE])
  <2>1. capture.step \in Steps /\ capture.step # "dead"
    BY DEF StreamInv, StreamTypeOK, Captures, FfmpegExits, Over
  <2>2. capture.step = "stopping"
    BY <1>2, <2>1 DEF StreamInv, Steps, Early, Streams, Late, Writing
  <2>3. upload = "none" /\ capture \in Rested
    BY <2>2 DEF StreamInv, Stopped
  <2>4. [capture EXCEPT !.killTimer = FALSE] \in Rested
    BY <2>3 DEF Rested, Captures
  <2>5. /\ ffmpeg' \in Processes /\ ~(ffmpeg' \in {"recording", "asked"})
        /\ backup' \in {"none", "partial", "complete"}
    BY <1>2 DEF Processes
  <2>6. browser' = browser /\ signals' = signals /\ restarts' = restarts
    BY DEF FfmpegExits
  <2> QED BY <1>2, <2>3, <2>4, <2>5, <2>6, UploadInv
<1> QED BY <1>1, <1>2 DEF FfmpegExits

LEMMA SigtermInv == ASSUME StreamInv, Sigterm PROVE StreamInv'
<1>1. capture \in Rested /\ signals + 1 \in 0..MaxSignals /\ ~Over
  BY StreamAssumption DEF StreamInv, StreamTypeOK, Sigterm
<1>2. /\ browser' = IF browser = "open" THEN "closed" ELSE browser
      /\ capture' = IF capture.listening THEN [capture EXCEPT !.told = TRUE]
                    ELSE IF browser = "open" THEN capture
                    ELSE [capture EXCEPT !.step = "dead"]
      /\ UNCHANGED <<ffmpeg, backup, upload, restarts>> /\ signals' = signals + 1
  BY DEF Sigterm
<1>3. /\ capture' \in Rested
      /\ capture'.step = capture.step \/ capture'.step = "dead"
  <2>1. CASE capture.listening
    BY <1>1, <1>2, <2>1 DEF Rested, Captures, Steps
  <2>2. CASE ~capture.listening /\ browser = "open"
    BY <1>1, <1>2, <2>2
  <2>3. CASE ~capture.listening /\ browser # "open"
    BY <1>1, <1>2, <2>3 DEF Rested, Captures, Steps
  <2> QED BY <2>1, <2>2, <2>3
<1>4. browser' # "open" /\ browser' \in {"none", "open", "closed"}
  BY <1>2 DEF StreamInv, StreamTypeOK
<1>5. StreamTypeOK'
  BY <1>1, <1>2, <1>3, <1>4, RestedType DEF StreamInv, StreamTypeOK
<1> QED BY <1>2, <1>3, <1>4, <1>5
        DEF StreamInv, Early, Streams, Stopped,
            Late, Shut, Uploads, Writing

LEMMA AroundInv == ASSUME StreamInv, BrowserDies \/ Dies \/ Restart \/ UNCHANGED streamVars
                   PROVE  StreamInv'
<1>1. CASE BrowserDies
  BY <1>1 DEF BrowserDies, StreamInv, StreamTypeOK, Early, Streams, Stopped, Late, Shut, Uploads,
              Writing
<1>2. CASE Dies
  <2>1. capture' \in Rested /\ capture'.step = "dead"
    BY <1>2 DEF Dies, StreamInv, Rested, Captures, Steps
  <2> QED BY <1>2, <2>1, RestedType
          DEF Dies, StreamInv, StreamTypeOK, Early, Streams, Stopped,
            Late, Shut, Uploads, Writing
<1>3. CASE Restart
  <2>1. capture' \in Rested /\ capture'.step = "launch"
    BY <1>3, FreshType DEF Restart
  <2>2. restarts' \in 0..MaxRestarts
    BY <1>3, StreamAssumption DEF Restart, StreamInv, StreamTypeOK
  <2> QED BY <1>3, <2>1, <2>2, RestedType
          DEF Restart, StreamInv, StreamTypeOK, Processes, Early, Streams, Stopped, Late, Shut,
              Uploads, Writing
<1>4. CASE UNCHANGED streamVars
  BY <1>4 DEF streamVars, StreamInv, StreamTypeOK, Early, Streams, Stopped, Late, Shut, Uploads,
              Writing
<1> QED BY <1>1, <1>2, <1>3, <1>4

LEMMA StreamNextInv == StreamInv /\ [Next_stream]_streamVars => StreamInv'
  BY LaunchInv, NavigateInv, StartInv, WakesInv, StopInv, KillInv, UploadTimeoutInv,
     UploadSettlesInv, CloseInv, ExitInv, FfmpegInv, SigtermInv, AroundInv DEF Next_stream

\* stream.js and its container keep their types, and nobody sleeps after the
\* last attempt, for every bound of attempts, signals and restarts.
THEOREM StreamTypes == StreamSpec => []StreamTypeOK
<1>1. StreamInv => StreamTypeOK
  BY DEF StreamInv
<1> QED BY InitStreamInv, StreamNextInv, <1>1, PTL DEF StreamSpec

\* shutdown() uploads what FFmpeg no longer writes, and a run that has ended
\* has left neither browser nor FFmpeg, wherever a signal, a timeout, the end
\* of a process or a restart of the container came in between.
THEOREM StopsClean == StreamSpec => []CleanStop
<1>1. StreamInv => CleanStop
  BY DEF StreamInv, Uploads, Late, Shut, CleanStop
<1> QED BY InitStreamInv, StreamNextInv, <1>1, PTL DEF StreamSpec

-----------------------------------------------------------------------------
(***************************************************************************)
(* ObserverFollow: its types, that every interval is held by the variable  *)
(* that can stop it, what the parent page is told, and the user's view.    *)
(***************************************************************************)

\* The intervals of tm are those that the variables of vr hold.
HeldBy(tm, vr) == /\ Running(tm) = {vr[x] : x \in Slots} \ {NoTimer}
                  /\ \A x \in Slots : vr[x] # NoTimer => tm[vr[x]].fun = x

\* What the parent was told agrees with the flags.
Says == /\ centered => told
        /\ notes.none <= 1 /\ (notes.none > 0 => told)
        /\ mode # "static" => notes.ok <= 1 /\ (notes.ok > 0 => centered)

\* The player is searched for, or followed.
SearchesAlone(vr) == vr["search"] = NoTimer \/ (vr["auto"] = NoTimer /\ vr["initial"] = NoTimer)

FollowInv == FollowTypeOK /\ IntervalsHeld /\ SearchesAlone(var) /\ Says

LEMMA IntervalsAreHeld == IntervalsHeld <=> HeldBy(timer, var)
  BY DEF IntervalsHeld, HeldBy

LEMMA FollowInvImplies == FollowInv => CameraSound /\ FollowTypeOK
  BY DEF FollowInv, CameraSound, Says, ParentToldOnce

LEMMA InitFollowInv == Init_follow => FollowInv
<1> SUFFICES ASSUME Init_follow PROVE FollowInv
  OBVIOUS
<1>0. MaxAttempts \in Nat /\ MaxAttempts > 0 /\ MaxGames \in Nat /\ NoTimer \notin Timer
  BY FollowAssumption
<1>1. FollowTypeOK
  <2>1. Off \in Timers
    BY <1>0 DEF Off, Timers
  <2>2. timer \in [Timer -> Timers] /\ var \in [Slots -> Timer \cup {NoTimer}]
    BY <2>1 DEF Init_follow
  <2>3. notes \in [ok : 0..2, none : 0..2]
    BY DEF Init_follow
  <2>4. games \in 0..MaxGames
    BY <1>0 DEF Init_follow
  <2>5. {follow, centered, told, listening, recent} \subseteq BOOLEAN
    BY DEF Init_follow
  <2> QED BY <2>2, <2>3, <2>4, <2>5 DEF Init_follow, FollowTypeOK
<1>2. IntervalsHeld
  <2>1. \A t \in Timer : timer[t].fun = "off"
    BY DEF Init_follow, Off
  <2>2. \A x \in Slots : var[x] = NoTimer
    BY DEF Init_follow
  <2> QED BY <2>1, <2>2 DEF IntervalsHeld, Running
<1>3. Says
  BY DEF Init_follow, Says
<1> QED BY <1>1, <1>2, <1>3 DEF FollowInv, SearchesAlone, Init_follow, Slots

-----------------------------------------------------------------------------
(***************************************************************************)
(* Centering: whichever function is called, one of four things happens.    *)
(***************************************************************************)
FitMap == mode = "static" /\ ShowAndTell
Centers == NothingMoves \/ Show \/ TellNone \/ FitMap

LEMMA ShowOrTellCenters == ASSUME NEW b \in BOOLEAN, ShowOrTell(b) PROVE Centers
  BY DEF ShowOrTell, Centers

LEMMA PlayerCenters == ASSUME NEW f, NEW h, observer_center_on_followed_player(f, h)
                       PROVE  Centers /\ (h => NothingMoves)
  BY DEF observer_center_on_followed_player, ShowOrTell, Centers

LEMMA GlobalCenters == ASSUME NEW h, observer_center_global_view(h)
                       PROVE  Centers /\ (h => NothingMoves)
  BY DEF observer_center_global_view, ShowOrTell, Centers

LEMMA DynamicCenters == ASSUME NEW h, observer_worldmap_center_dynamic(h)
                        PROVE  Centers /\ (h => NothingMoves)
  BY DEF observer_worldmap_center_dynamic, ShowOrTell, Centers

LEMMA FitCenters == ASSUME mode = "static", observer_worldmap_fit_entire_map PROVE Centers
  BY DEF observer_worldmap_fit_entire_map, Centers, FitMap, ShowAndTell

LEMMA FallbackCenters == ASSUME notify_observer_centered_fallback PROVE Centers
  BY DEF notify_observer_centered_fallback, ShowOrTell, Centers

\* The interval "auto" leaves the user's view alone.
LEMMA AutoCenters == ASSUME AutoCenter PROVE Centers /\ (Held => NothingMoves)
<1>1. CASE mode = "player"
  BY <1>1, PlayerCenters DEF AutoCenter
<1>2. CASE mode = "global"
  BY <1>2, GlobalCenters DEF AutoCenter
<1>3. CASE mode = "dynamic"
  BY <1>3, DynamicCenters DEF AutoCenter
<1>4. CASE mode \notin {"player", "global", "dynamic"}
  BY <1>4 DEF AutoCenter, Centers
<1> QED BY <1>1, <1>2, <1>3, <1>4

\* What centering does to the flags and to what the parent was told.
LEMMA CentersTold ==
  ASSUME FollowTypeOK, Says, Centers, mode' = mode
  PROVE  /\ Says'
         /\ {centered', told'} \subseteq BOOLEAN
         /\ camera' \in {"nobody", "page", "user"}
         /\ notes' \in [ok : 0..2, none : 0..2]
<1>0. /\ notes \in [ok : 0..2, none : 0..2] /\ centered \in BOOLEAN /\ told \in BOOLEAN
      /\ camera \in {"nobody", "page", "user"}
  BY DEF FollowTypeOK
<1>n. /\ Note("ok") \in [ok : 0..2, none : 0..2] /\ Note("ok").none = notes.none
      /\ notes.ok = 0 => Note("ok").ok = 1
      /\ Note("none") \in [ok : 0..2, none : 0..2] /\ Note("none").ok = notes.ok
      /\ notes.none = 0 => Note("none").none = 1
  BY <1>0 DEF Note
<1>1. CASE NothingMoves
  BY <1>0, <1>1 DEF NothingMoves, Says
<1>2. CASE Show
  <2>1. CASE centered
    <3>1. centered' = TRUE /\ notes' = notes /\ camera' = "page"
      BY <1>2, <2>1 DEF Show
    <3>2. told' = TRUE
      BY <1>0, <1>2, <2>1 DEF Show, Says
    <3> QED BY <1>0, <2>1, <3>1, <3>2 DEF Says
  <2>2. CASE ~centered
    <3>1. centered' = TRUE /\ notes' = Note("ok") /\ camera' = "page" /\ told' = TRUE
      BY <1>2, <2>2 DEF Show
    <3>2. mode # "static" => notes.ok = 0
      BY <1>0, <2>2 DEF Says
    <3> QED BY <1>0, <1>n, <3>1, <3>2 DEF Says
  <2> QED BY <2>1, <2>2
<1>3. CASE TellNone
  BY <1>0, <1>n, <1>3 DEF TellNone, Says
<1>4. CASE FitMap
  BY <1>0, <1>n, <1>4 DEF FitMap, ShowAndTell, Says
<1> QED BY <1>1, <1>2, <1>3, <1>4 DEF Centers

-----------------------------------------------------------------------------
(***************************************************************************)
(* Intervals                                                               *)
(***************************************************************************)
TimersType(tm, vr) == tm \in [Timer -> Timers] /\ vr \in [Slots -> Timer \cup {NoTimer}]

\* An interval that runs calls the function of the variable that holds it.
LEMMA HeldByVariable ==
  ASSUME NEW tm, NEW vr, HeldBy(tm, vr), NEW t \in Timer, tm[t].fun # "off"
  PROVE  tm[t].fun \in Slots /\ vr[tm[t].fun] = t
  BY DEF HeldBy, Running

\* setInterval, for variables that hold nothing.
LEMMA StartsHeld ==
  ASSUME NEW tm, NEW vr, TimersType(tm, vr), HeldBy(tm, vr), NEW S \in SUBSET Slots,
         \A x \in S : vr[x] = NoTimer, StartIntervals(tm, vr, S)
  PROVE  /\ TimersType(timer', var') /\ HeldBy(timer', var')
         /\ \A x \in Slots \ S : var'[x] = vr[x]
<1>1. PICK new \in [S -> Timer \ Running(tm)] :
        /\ \A x, y \in S : x # y => new[x] # new[y]
        /\ timer' = [t \in Timer |->
                      IF \E x \in S : new[x] = t
                      THEN [fun |-> CHOOSE x \in S : new[x] = t, tries |-> 0] ELSE tm[t]]
        /\ var' = [x \in Slots |-> IF x \in S THEN new[x] ELSE vr[x]]
  BY DEF StartIntervals
<1>2. ASSUME NEW x \in S
      PROVE  /\ new[x] \in Timer /\ tm[new[x]].fun = "off"
             /\ timer'[new[x]] = [fun |-> x, tries |-> 0]
  <2>1. new[x] \in Timer /\ tm[new[x]].fun = "off"
    BY <1>1, <1>2 DEF Running
  <2>2. (CHOOSE y \in S : new[y] = new[x]) = x
    BY <1>1, <1>2
  <2> QED BY <1>1, <1>2, <2>1, <2>2
<1>3. ASSUME NEW t \in Timer, \A x \in S : new[x] # t
      PROVE  timer'[t] = tm[t]
  BY <1>1, <1>3
<1>4. \A t \in Timer : timer'[t] \in Timers
  <2> TAKE t \in Timer
  <2>1. CASE \E x \in S : new[x] = t
    <3>1. PICK x \in S : new[x] = t
      BY <2>1
    <3>2. 0 \in 0..(MaxAttempts - 1)
      BY FollowAssumption
    <3>3. [fun |-> x, tries |-> 0] \in Timers
      BY <3>2 DEF Timers, Slots
    <3> QED BY <1>2, <3>1, <3>3
  <2>2. CASE \A x \in S : new[x] # t
    BY <1>3, <2>2 DEF TimersType
  <2> QED BY <2>1, <2>2
<1>5. TimersType(timer', var')
  BY <1>1, <1>2, <1>4 DEF TimersType
<1>6. \A x \in Slots : var'[x] # NoTimer => timer'[var'[x]].fun = x
  <2> SUFFICES ASSUME NEW x \in Slots, var'[x] # NoTimer PROVE timer'[var'[x]].fun = x
    OBVIOUS
  <2>1. CASE x \in S
    BY <1>1, <1>2, <2>1
  <2>2. CASE x \notin S
    <3>1. var'[x] = vr[x] /\ vr[x] \in Timer /\ tm[vr[x]].fun = x
      BY <1>1, <2>2 DEF HeldBy, TimersType
    <3>2. \A y \in S : new[y] # vr[x]
      BY <1>2, <3>1 DEF Slots
    <3> QED BY <1>3, <3>1, <3>2
  <2> QED BY <2>1, <2>2
<1>7. ASSUME NEW t \in Timer, timer'[t].fun # "off"
      PROVE  \E x \in Slots : var'[x] = t
  <2>1. CASE \E x \in S : new[x] = t
    BY <1>1, <2>1
  <2>2. CASE \A x \in S : new[x] # t
    <3>1. tm[t].fun # "off"
      BY <1>3, <1>7, <2>2
    <3>2. tm[t].fun \in Slots /\ vr[tm[t].fun] = t
      BY <3>1, HeldByVariable
    <3>3. tm[t].fun \notin S
      BY <3>2, FollowAssumption
    <3> QED BY <1>1, <3>2, <3>3
  <2> QED BY <2>1, <2>2
<1>8. ASSUME NEW x \in Slots, var'[x] # NoTimer
      PROVE  var'[x] \in Timer /\ timer'[var'[x]].fun # "off"
  BY <1>5, <1>6, <1>8 DEF TimersType, Slots
<1>9. Running(timer') = {var'[x] : x \in Slots} \ {NoTimer}
  BY <1>7, <1>8, FollowAssumption DEF Running
<1> QED BY <1>1, <1>5, <1>6, <1>9 DEF HeldBy

\* cleanup_observer_follow_mode leaves no interval and no variable set.
LEMMA CleanHeld ==
  ASSUME TimersType(timer, var), HeldBy(timer, var)
  PROVE  /\ TimersType(CleanTimers, CleanVars) /\ HeldBy(CleanTimers, CleanVars)
         /\ \A x \in Slots : CleanVars[x] = NoTimer
<1>1. Off \in Timers /\ Off.fun = "off"
  BY FollowAssumption DEF Off, Timers
<1>2. \A x \in Slots : CleanVars[x] = NoTimer
  BY DEF CleanVars
<1>3. CleanVars \in [Slots -> Timer \cup {NoTimer}]
  BY DEF CleanVars
<1>4. CleanTimers \in [Timer -> Timers]
  BY <1>1 DEF CleanTimers, TimersType
<1>5. ASSUME NEW t \in Timer
      PROVE  CleanTimers[t].fun = "off"
  <2>1. CASE t \in {var[x] : x \in Slots}
    BY <1>1, <2>1 DEF CleanTimers
  <2>2. CASE t \notin {var[x] : x \in Slots}
    <3>1. CleanTimers[t] = timer[t]
      BY <2>2 DEF CleanTimers
    <3> QED BY <2>2, <3>1, HeldByVariable
  <2> QED BY <2>1, <2>2
<1> QED BY <1>2, <1>3, <1>4, <1>5 DEF HeldBy, TimersType, Running

\* clearInterval on one variable.
LEMMA ClearedHeld ==
  ASSUME TimersType(timer, var), HeldBy(timer, var), NEW z \in Slots
  PROVE  LET tm == Cleared(timer, z)
             vr == [var EXCEPT ![z] = NoTimer]
         IN  TimersType(tm, vr) /\ HeldBy(tm, vr) /\ vr[z] = NoTimer
<1> DEFINE tm == Cleared(timer, z)
           vr == [var EXCEPT ![z] = NoTimer]
<1>1. Off \in Timers /\ Off.fun = "off"
  BY FollowAssumption DEF Off, Timers
<1>2. /\ vr \in [Slots -> Timer \cup {NoTimer}] /\ vr[z] = NoTimer
      /\ \A x \in Slots : x # z => vr[x] = var[x]
  BY DEF TimersType
<1>3. tm \in [Timer -> Timers]
  BY <1>1 DEF Cleared, TimersType
<1>4. \A t \in Timer : t # var[z] => tm[t] = timer[t]
  BY DEF Cleared, TimersType
<1>5. var[z] # NoTimer => var[z] \in Timer /\ tm[var[z]] = Off
  BY DEF Cleared, TimersType
<1>6. ASSUME NEW x \in Slots, vr[x] # NoTimer
      PROVE  /\ x # z /\ vr[x] = var[x] /\ vr[x] \in Timer /\ vr[x] # var[z]
             /\ tm[vr[x]].fun = x
  <2>1. x # z /\ vr[x] = var[x] /\ vr[x] \in Timer
    BY <1>2, <1>6
  <2>2. timer[var[x]].fun = x
    BY <1>6, <2>1 DEF HeldBy
  <2>3. var[x] # var[z]
    BY <1>6, <2>1, <2>2 DEF HeldBy
  <2> QED BY <1>4, <2>1, <2>2, <2>3
<1>7. ASSUME NEW t \in Timer, tm[t].fun # "off"
      PROVE  \E x \in Slots : vr[x] = t
  <2>1. t # var[z]
    BY <1>1, <1>5, <1>7, FollowAssumption
  <2>2. timer[t].fun \in Slots /\ var[timer[t].fun] = t
    BY <1>4, <1>7, <2>1, HeldByVariable
  <2> QED BY <1>2, <2>1, <2>2
<1>8. Running(tm) = {vr[x] : x \in Slots} \ {NoTimer}
  <2> HIDE DEF tm, vr
  <2>1. \A x \in Slots : vr[x] # NoTimer => vr[x] \in Timer /\ tm[vr[x]].fun # "off"
    BY <1>6 DEF Slots
  <2> QED BY <1>7, <2>1, FollowAssumption DEF Running
<1> HIDE DEF tm, vr
<1>9. TimersType(tm, vr) /\ HeldBy(tm, vr) /\ vr[z] = NoTimer
  BY <1>2, <1>3, <1>6, <1>8 DEF TimersType, HeldBy
<1> QED BY <1>9 DEF tm, vr

\* A call of a poll that goes on.
LEMMA TriedHeld ==
  ASSUME TimersType(timer, var), HeldBy(timer, var), NEW t \in Timer,
         Tried(t)[t].tries < MaxAttempts
  PROVE  TimersType(Tried(t), var) /\ HeldBy(Tried(t), var)
<1>1. /\ timer[t] \in Timers /\ Tried(t)[t] = [timer[t] EXCEPT !.tries = @ + 1]
      /\ \A s \in Timer : s # t => Tried(t)[s] = timer[s]
  BY DEF Tried, TimersType
<1>2. /\ Tried(t)[t].tries = timer[t].tries + 1 /\ Tried(t)[t].fun = timer[t].fun
  BY <1>1 DEF Timers
<1>3. Tried(t)[t] \in Timers
  BY <1>1, <1>2, FollowAssumption DEF Timers
<1>4. Tried(t) \in [Timer -> Timers]
  BY <1>1, <1>3 DEF Tried, TimersType
<1>5. \A s \in Timer : Tried(t)[s].fun = timer[s].fun
  BY <1>1, <1>2
<1>6. Running(Tried(t)) = Running(timer)
  BY <1>5 DEF Running
<1>7. \A x \in Slots : var[x] # NoTimer => var[x] \in Timer
  BY DEF TimersType
<1> QED BY <1>4, <1>5, <1>6, <1>7 DEF TimersType, HeldBy

-----------------------------------------------------------------------------
(***************************************************************************)
(* Steps                                                                   *)
(***************************************************************************)
LEMMA FollowInvNow ==
  FollowInv => TimersType(timer, var) /\ HeldBy(timer, var) /\ FollowTypeOK /\ Says
               /\ SearchesAlone(var)
  BY IntervalsAreHeld DEF FollowInv, FollowTypeOK, TimersType

LEMMA PrimedInv ==
  ASSUME TimersType(timer', var'), HeldBy(timer', var'), SearchesAlone(var'), Says',
         mode' \in Modes, games' \in 0..MaxGames, world' \subseteq Facts,
         {follow', centered', told', listening', recent'} \subseteq BOOLEAN,
         camera' \in {"nobody", "page", "user"}, notes' \in [ok : 0..2, none : 0..2]
  PROVE  FollowInv'
  BY DEF FollowInv, FollowTypeOK, TimersType, HeldBy, IntervalsHeld

\* A step that may center, whatever it does to the intervals.
LEMMA CenteringStep ==
  ASSUME FollowInv, Centers, TimersType(timer', var'), HeldBy(timer', var'),
         SearchesAlone(var'), mode' = mode, games' \in 0..MaxGames, world' = world,
         {follow', listening', recent'} \subseteq BOOLEAN
  PROVE  FollowInv'
<1>1. FollowTypeOK /\ Says
  BY FollowInvNow
<1>2. /\ Says' /\ {centered', told'} \subseteq BOOLEAN
      /\ camera' \in {"nobody", "page", "user"} /\ notes' \in [ok : 0..2, none : 0..2]
  BY <1>1, CentersTold
<1>3. mode' \in Modes /\ world' \subseteq Facts
  BY <1>1 DEF FollowTypeOK
<1> QED BY <1>2, <1>3, PrimedInv

LEMMA StartFollowingStep ==
  ASSUME NEW tm, NEW vr, NEW h, TimersType(tm, vr), HeldBy(tm, vr),
         vr["auto"] = NoTimer, vr["initial"] = NoTimer, StartFollowing(tm, vr, h)
  PROVE  /\ Centers /\ TimersType(timer', var') /\ HeldBy(timer', var')
         /\ var'["search"] = vr["search"]
<1>1. Centers /\ StartIntervals(tm, vr, {"auto", "initial"})
  BY PlayerCenters DEF StartFollowing
<1>2. {"auto", "initial"} \in SUBSET Slots /\ \A x \in {"auto", "initial"} : vr[x] = NoTimer
  BY DEF Slots
<1> QED BY <1>1, <1>2, StartsHeld DEF Slots

LEMMA EnterGame == FollowInv /\ init_observer_follow_mode => FollowInv'
<1> SUFFICES ASSUME FollowInv, init_observer_follow_mode PROVE FollowInv'
  OBVIOUS
<1>1. FollowTypeOK /\ TimersType(timer, var) /\ HeldBy(timer, var)
  BY FollowInvNow
<1>2. /\ TimersType(CleanTimers, CleanVars) /\ HeldBy(CleanTimers, CleanVars)
      /\ \A x \in Slots : CleanVars[x] = NoTimer
  BY <1>1, CleanHeld
<1>3. /\ games' \in 0..MaxGames /\ mode' = mode /\ world' = world
      /\ recent' = FALSE /\ listening' = TRUE /\ follow' \in BOOLEAN
  <2>1. games \in 0..MaxGames /\ games < MaxGames /\ games' = games + 1
    BY <1>1 DEF FollowTypeOK, init_observer_follow_mode
  <2>2. games' \in 0..MaxGames
    BY <2>1, FollowAssumption
  <2>3. mode' = mode /\ world' = world /\ recent' = FALSE /\ listening' = TRUE
    BY DEF init_observer_follow_mode
  <2>4. follow' = TRUE \/ follow' = FALSE
    BY DEF init_observer_follow_mode
  <2> QED BY <2>2, <2>3, <2>4
<1>4. \A S \in SUBSET Slots : \A x \in S : CleanVars[x] = NoTimer
  BY <1>2
<1>5. Centers /\ TimersType(timer', var') /\ HeldBy(timer', var') /\ SearchesAlone(var')
  <2>1. CASE StartFollowing(CleanTimers, CleanVars, FALSE)
    BY <1>2, <2>1, StartFollowingStep DEF Slots, SearchesAlone
  <2>2. CASE NothingMoves /\ StartIntervals(CleanTimers, CleanVars, {"search"})
    <3>1. {"search"} \in SUBSET Slots
      BY DEF Slots
    <3> QED BY <1>2, <1>4, <2>2, <3>1, StartsHeld DEF Centers, SearchesAlone, Slots
  <2>3. CASE StartGlobal
    <3>1. {"auto", "initial"} \in SUBSET Slots
      BY DEF Slots
    <3>2. Centers
      BY <2>3, GlobalCenters, DynamicCenters DEF StartGlobal
    <3> QED BY <1>2, <1>4, <2>3, <3>1, <3>2, StartsHeld DEF StartGlobal, SearchesAlone, Slots
  <2>4. CASE mode = "static" /\ StartStatic
    <3> DEFINE S == IF "map" \in world THEN {} ELSE {"initial"}
    <3>1. S \in SUBSET Slots
      BY DEF Slots
    <3>2. Centers /\ StartIntervals(CleanTimers, CleanVars, S)
      BY <2>4, FitCenters DEF StartStatic
    <3> QED BY <1>2, <1>4, <3>1, <3>2, StartsHeld DEF SearchesAlone, Slots
  <2> QED BY <2>1, <2>2, <2>3, <2>4 DEF init_observer_follow_mode
<1> QED BY <1>3, <1>5, CenteringStep

LEMMA AutoStep ==
  ASSUME FollowInv, NEW t \in Timer, AutoTick(t)
  PROVE  FollowInv' /\ (Held => NothingMoves)
<1>1. Centers /\ (Held => NothingMoves)
  BY AutoCenters DEF AutoTick
<1>2. UNCHANGED <<mode, games, world, timer, var, follow, listening, recent>>
  BY DEF AutoTick
<1>3. FollowTypeOK /\ TimersType(timer', var') /\ HeldBy(timer', var') /\ SearchesAlone(var')
  BY <1>2, FollowInvNow
<1> QED BY <1>1, <1>2, <1>3, CenteringStep DEF FollowTypeOK

\* A poll is held by its own variable; it is freed when the poll ends.
LEMMA StopsHeld ==
  ASSUME FollowInv, NEW z \in Slots, Stops(z)
  PROVE  /\ TimersType(timer', var') /\ HeldBy(timer', var') /\ var'[z] = NoTimer
         /\ SearchesAlone(var')
<1>1. TimersType(timer, var) /\ HeldBy(timer, var) /\ SearchesAlone(var)
  BY FollowInvNow
<1>2. timer' = Cleared(timer, z) /\ var' = [var EXCEPT ![z] = NoTimer]
  BY DEF Stops
<1> QED BY <1>1, <1>2, ClearedHeld DEF SearchesAlone, TimersType, Slots

LEMMA InitialStep ==
  ASSUME FollowInv, NEW t \in Timer, InitialTick(t)
  PROVE  FollowInv' /\ (NothingMoves \/ Ended("initial"))
<1>1. /\ timer[t].fun = "initial"
      /\ UNCHANGED <<mode, games, world, follow, listening, recent>>
  BY DEF InitialTick
<1>2. FollowTypeOK /\ TimersType(timer, var) /\ HeldBy(timer, var) /\ SearchesAlone(var)
  BY FollowInvNow
<1>3. var["initial"] = t
  BY <1>1, <1>2, HeldByVariable
<1>4. CASE Stops("initial") /\ Centers
  <2>1. /\ TimersType(timer', var') /\ HeldBy(timer', var') /\ var'["initial"] = NoTimer
        /\ SearchesAlone(var')
    BY <1>4, StopsHeld DEF Slots
  <2>2. Ended("initial")
    BY <1>3, <2>1, FollowAssumption DEF Ended
  <2> QED BY <1>1, <1>2, <1>4, <2>1, <2>2, CenteringStep DEF FollowTypeOK
<1>5. CASE timer' = Tried(t) /\ var' = var /\ NothingMoves /\ Tried(t)[t].tries < MaxAttempts
  BY <1>1, <1>2, <1>5, TriedHeld, CenteringStep DEF FollowTypeOK, Centers
<1>6. CASE Loaded /\ Stops("initial")
            /\ IF mode = "static" THEN observer_worldmap_fit_entire_map ELSE AutoCenter
  BY <1>4, <1>6, FitCenters, AutoCenters
<1> QED BY <1>4, <1>5, <1>6, FallbackCenters DEF InitialTick

LEMMA SearchStep ==
  ASSUME FollowInv, NEW t \in Timer, SearchTick(t)
  PROVE  FollowInv' /\ (NothingMoves \/ Ended("search"))
<1>1. /\ timer[t].fun = "search"
      /\ UNCHANGED <<mode, games, world, listening, recent>>
  BY DEF SearchTick
<1>2. FollowTypeOK /\ TimersType(timer, var) /\ HeldBy(timer, var) /\ SearchesAlone(var)
  BY FollowInvNow
<1>3. var["search"] = t
  BY <1>1, <1>2, HeldByVariable
<1>4. CASE "known" \in world /\ follow' = TRUE
            /\ StartFollowing(Cleared(timer, "search"), [var EXCEPT !["search"] = NoTimer], Held)
  <2> DEFINE tm == Cleared(timer, "search")
             vr == [var EXCEPT !["search"] = NoTimer]
  <2>1. TimersType(tm, vr) /\ HeldBy(tm, vr) /\ vr["search"] = NoTimer
    BY <1>2, ClearedHeld DEF Slots
  <2>2. vr["auto"] = NoTimer /\ vr["initial"] = NoTimer
    BY <1>2, <1>3, FollowAssumption DEF SearchesAlone, TimersType, Slots
  <2> HIDE DEF tm, vr
  <2>3. Centers /\ TimersType(timer', var') /\ HeldBy(timer', var') /\ var'["search"] = NoTimer
    BY <1>4, <2>1, <2>2, StartFollowingStep DEF tm, vr
  <2>4. Ended("search")
    BY <1>3, <2>3, FollowAssumption DEF Ended
  <2>5. follow' \in BOOLEAN /\ listening' \in BOOLEAN /\ recent' \in BOOLEAN
    BY <1>1, <1>2, <1>4 DEF FollowTypeOK
  <2> QED BY <1>1, <1>2, <2>3, <2>4, <2>5, CenteringStep DEF FollowTypeOK, SearchesAlone
<1>5. CASE Stops("search") /\ notify_observer_centered_fallback /\ follow' = follow
  <2>1. /\ TimersType(timer', var') /\ HeldBy(timer', var') /\ var'["search"] = NoTimer
        /\ SearchesAlone(var')
    BY <1>5, StopsHeld DEF Slots
  <2>2. Ended("search")
    BY <1>3, <2>1, FollowAssumption DEF Ended
  <2> QED BY <1>1, <1>2, <1>5, <2>1, <2>2, FallbackCenters, CenteringStep DEF FollowTypeOK
<1>6. CASE /\ timer' = Tried(t) /\ var' = var /\ follow' = follow /\ NothingMoves
           /\ Tried(t)[t].tries < MaxAttempts
  BY <1>1, <1>2, <1>6, TriedHeld, CenteringStep DEF FollowTypeOK, Centers
<1> QED BY <1>4, <1>5, <1>6 DEF SearchTick

\* The steps that touch neither the intervals nor the parent.
LEMMA OtherStep ==
  ASSUME FollowInv, Packet \/ UserMoves \/ CooldownEnds
  PROVE  FollowInv'
<1>1. FollowTypeOK /\ TimersType(timer, var) /\ HeldBy(timer, var) /\ SearchesAlone(var) /\ Says
  BY FollowInvNow
<1>2. UNCHANGED <<mode, games, timer, var, follow, centered, told, listening, notes>>
  BY DEF Packet, UserMoves, CooldownEnds
<1>3. /\ world' \subseteq Facts /\ recent' \in BOOLEAN /\ camera' \in {"nobody", "page", "user"}
  <2>1. CASE Packet
    BY <1>1, <2>1 DEF Packet, FollowTypeOK
  <2>2. CASE UserMoves
    BY <1>1, <2>2 DEF UserMoves, FollowTypeOK
  <2>3. CASE CooldownEnds
    BY <1>1, <2>3 DEF CooldownEnds, FollowTypeOK
  <2> QED BY <2>1, <2>2, <2>3
<1>4. Says'
  BY <1>1, <1>2 DEF Says
<1>5. TimersType(timer', var') /\ HeldBy(timer', var') /\ SearchesAlone(var')
  BY <1>1, <1>2
<1> QED BY <1>1, <1>2, <1>3, <1>4, <1>5, PrimedInv DEF FollowTypeOK

LEMMA ResetStep == FollowInv /\ ResetForRetry => FollowInv'
<1> SUFFICES ASSUME FollowInv, ResetForRetry PROVE FollowInv'
  OBVIOUS
<1>1. FollowTypeOK /\ TimersType(timer, var) /\ HeldBy(timer, var) /\ SearchesAlone(var) /\ Says
  BY FollowInvNow
<1>2. /\ centered' = FALSE /\ told' = FALSE /\ notes' = [ok |-> 0, none |-> 0]
      /\ world' = world \ {"map"}
      /\ UNCHANGED <<mode, games, timer, var, follow, listening, camera, recent>>
  BY DEF ResetForRetry
<1>3. Says' /\ notes' \in [ok : 0..2, none : 0..2]
  BY <1>2 DEF Says
<1>4. TimersType(timer', var') /\ HeldBy(timer', var') /\ SearchesAlone(var')
  BY <1>1, <1>2
<1> QED BY <1>1, <1>2, <1>3, <1>4, PrimedInv DEF FollowTypeOK

LEMMA UnloadStep == FollowInv /\ Unload => FollowInv'
<1> SUFFICES ASSUME FollowInv, Unload PROVE FollowInv'
  OBVIOUS
<1>1. FollowTypeOK /\ TimersType(timer, var) /\ HeldBy(timer, var) /\ Says
  BY FollowInvNow
<1>2. /\ timer' = CleanTimers /\ var' = CleanVars
      /\ follow' = FALSE /\ recent' = FALSE /\ listening' = FALSE
      /\ UNCHANGED <<mode, games, world, centered, told, camera, notes>>
  BY DEF Unload
<1>3. TimersType(timer', var') /\ HeldBy(timer', var') /\ SearchesAlone(var')
  BY <1>1, <1>2, CleanHeld DEF SearchesAlone, Slots
<1>4. Says'
  BY <1>1, <1>2 DEF Says
<1> QED BY <1>1, <1>2, <1>3, <1>4, PrimedInv DEF FollowTypeOK

LEMMA FollowNextInv == FollowInv /\ [Next_follow]_followVars => FollowInv'
<1> SUFFICES ASSUME FollowInv, [Next_follow]_followVars PROVE FollowInv'
  OBVIOUS
<1>1. CASE init_observer_follow_mode
  BY <1>1, EnterGame
<1>2. CASE Ticks
  BY <1>2, AutoStep, InitialStep, SearchStep DEF Ticks
<1>3. CASE Packet \/ UserMoves \/ CooldownEnds
  BY <1>3, OtherStep
<1>4. CASE ResetForRetry \/ Unload
  BY <1>4, ResetStep, UnloadStep
<1>5. CASE UNCHANGED followVars
  <2>1. UNCHANGED <<mode, games, world, timer, var, follow, centered, told, listening, camera,
                    recent, notes>>
    BY <1>5 DEF followVars
  <2> QED BY <2>1 DEF FollowInv, FollowTypeOK, IntervalsHeld, SearchesAlone, Says, Running
<1> QED BY <1>1, <1>2, <1>3, <1>4, <1>5 DEF Next_follow

\* The invariant holds whatever the page's mode, and however the intervals,
\* the packets, the user and the retries come.
THEOREM FollowInvariant == FollowSpec => []FollowInv
  BY InitFollowInv, FollowNextInv, PTL DEF FollowSpec

\* Every interval that runs is held by the variable that can stop it, and the
\* parent is told at most once of each: cleanup_observer_follow_mode, the
\* polls that end and the flags observer_centered_notified and
\* observer_parent_notified agree, whatever the number of attempts, games and
\* intervals.
THEOREM CameraIsSound == FollowSpec => [](FollowTypeOK /\ CameraSound)
<1>1. FollowInv => FollowTypeOK /\ CameraSound
  BY FollowInvImplies
<1> QED BY <1>1, FollowInvariant, PTL

LEMMA ViewKeptStep ==
  ASSUME FollowInv, [Next_follow]_followVars, Held, camera = "user", camera' = "page"
  PROVE  Ended("initial") \/ Ended("search") \/ ~recent'
<1>1. CASE init_observer_follow_mode
  BY <1>1 DEF init_observer_follow_mode
<1>2. CASE Ticks
  <2>1. NothingMoves => camera' = camera
    BY DEF NothingMoves
  <2> QED BY <1>2, <2>1, AutoStep, InitialStep, SearchStep DEF Ticks
<1>3. CASE Packet \/ UserMoves \/ CooldownEnds \/ ResetForRetry \/ Unload
  BY <1>3 DEF Packet, UserMoves, CooldownEnds, ResetForRetry, Unload
<1>4. CASE UNCHANGED followVars
  BY <1>4 DEF followVars
<1> QED BY <1>1, <1>2, <1>3, <1>4 DEF Next_follow

\* The user's view is left alone during the cooldown, unless a poll ends or
\* the game is entered again (observer_is_interaction_cooldown_active in the
\* functions that center).
THEOREM ViewIsKept == FollowSpec => ViewKept
<1>1. FollowInv /\ [Next_follow]_followVars
        => [Held /\ camera = "user" /\ camera' = "page"
              => Ended("initial") \/ Ended("search") \/ ~recent']_followVars
  BY ViewKeptStep
<1> QED BY <1>1, FollowInvariant, PTL DEF FollowSpec, ViewKept

-----------------------------------------------------------------------------
(***************************************************************************)
(* ObserverClient: how an observer gets to a map on the screen.            *)
(***************************************************************************)

\* What each callback must keep true of the page: a retry that is promised or
\* needed has its timer, a map has its tiles, which wait for nothing, and a
\* renderer that is not ready will be.
PageInv(p) ==
  /\ p \in Pages
  /\ p.inProgress => p.retries > 0
  /\ ~p.called => p.retries > 0
  /\ p.map <=> p.tilesInit
  /\ p.tilesInit => p.pending = {}
  /\ p.populated => p.map
  /\ p.state = "RUNNING" /\ ~p.rendered => p.rendering > 0
  /\ p.state = "RUNNING" /\ p.populated /\ ~p.terrainReady =>
       p.rendering > 0 \/ p.frames > 0 \/ p.mapFrames > 0

\* A page that asked for a connection gets one, or has told that it failed.
Waits(p, k) == p.called => p.ajax > 0 \/ p.told \/ \E s \in Sock : k[s].ready # "free"

\* A new WebSocket has brought no map, and `ws` none that the page has not.
MapsKnown(p, k) == /\ \A s \in Sock : k[s].ready = "free" => ~k[s].mapSent
                   /\ p.ws # None /\ k[p.ws].mapSent => p.map

TilesKept(p, g) == g \subseteq p.tiles \cup p.pending

ClientInv == /\ PageInv(page) /\ sock \in [Sock -> Socks] /\ got \subseteq Tile
             /\ Waits(page, sock) /\ MapsKnown(page, sock) /\ TilesKept(page, got)

\* Two pages agree on the connection, and on the world and its pictures.
SameConnection(p, q) == /\ q.called = p.called /\ q.ajax = p.ajax /\ q.told = p.told
                        /\ q.ws = p.ws /\ q.inProgress = p.inProgress
                        /\ q.retries = p.retries
SameWorld(p, q) == /\ q.map = p.map /\ q.tilesInit = p.tilesInit
                   /\ q.pending = p.pending /\ q.tiles = p.tiles
                   /\ q.populated = p.populated
SameFrames(p, q) == /\ q.rendered = p.rendered /\ q.frames = p.frames
                    /\ q.mapFrames = p.mapFrames /\ q.terrainReady = p.terrainReady

LEMMA ClientInvImplies == ClientInv => NothingMissed /\ RetriesSound
<1> SUFFICES ASSUME ClientInv PROVE NothingMissed /\ RetriesSound
  OBVIOUS
<1>1. TypeOK /\ RetryHasTimer /\ TerrainTold
  BY DEF ClientInv, PageInv, TypeOK, RetryHasTimer, TerrainTold
<1>2. NoTileLost
  BY DEF ClientInv, TilesKept, NoTileLost
<1>3. NeverStuck
  BY DEF ClientInv, PageInv, Waits, NeverStuck
<1> QED BY <1>1, <1>2, <1>3 DEF NothingMissed, RetriesSound

-----------------------------------------------------------------------------
(***************************************************************************)
(* The functions of the page                                               *)
(***************************************************************************)
LEMMA PageBounds ==
  ASSUME NEW p \in Pages
  PROVE  /\ p.ajax \in 0..MaxTimers /\ p.polls \in 0..MaxTimers /\ p.waits \in 0..MaxTimers
         /\ p.retries \in 0..MaxTimers /\ p.rendering \in 0..MaxTimers
         /\ p.frames \in 0..MaxTimers /\ p.mapFrames \in 0..MaxTimers
         /\ p.count \in 0..MaxRetries /\ p.timeouts \in 0..MaxTimeouts
         /\ p.ws \in Sock \cup {None} /\ p.state \in States
         /\ p.tiles \subseteq Tile /\ p.pending \subseteq Tile
         /\ p.called \in BOOLEAN /\ p.told \in BOOLEAN /\ p.map \in BOOLEAN
         /\ p.tilesInit \in BOOLEAN /\ p.inProgress \in BOOLEAN
  BY DEF Pages

LEMMA Bounds == /\ MaxTimers \in Nat /\ MaxTimers > 0 /\ MaxRetries \in Nat
                /\ MaxTimeouts \in Nat /\ None \notin Sock
  BY ObserverAssumption

LEMMA BlankPageType == BlankPage \in Pages
<1>1. 0 \in 0..MaxTimers /\ 0 \in 0..MaxRetries /\ 0 \in 0..MaxTimeouts
  BY Bounds
<1> QED BY <1>1 DEF BlankPage, Pages, States

\* The page without the demands on its retries asks for a server.
LEMMA NetworkInitPage ==
  ASSUME NEW p \in Pages, p.ajax < MaxTimers
  PROVE  /\ network_init(p) \in Pages /\ network_init(p).called
         /\ network_init(p).ajax = IF p.called THEN p.ajax ELSE p.ajax + 1
         /\ network_init(p).ws = p.ws /\ network_init(p).told = p.told
         /\ network_init(p).retries = p.retries /\ network_init(p).state = p.state
         /\ network_init(p).rendering = p.rendering
         /\ SameWorld(p, network_init(p)) /\ SameFrames(p, network_init(p))
<1>1. CASE p.called
  BY <1>1 DEF network_init, SameWorld, SameFrames
<1>2. CASE ~p.called
  <2>1. network_init(p) = [p EXCEPT !.called = TRUE, !.ajax = p.ajax + 1]
    BY <1>2 DEF network_init
  <2>2. p.ajax + 1 \in 0..MaxTimers
    BY PageBounds, Bounds
  <2> QED BY <1>2, <2>1, <2>2, ZenonT(60) DEF Pages, SameWorld, SameFrames
<1> QED BY <1>1, <1>2

LEMMA ResetPage ==
  ASSUME NEW p \in Pages
  PROVE  LET q == reset_observer_state_for_retry(p)
         IN  /\ q \in Pages
             /\ q.ws = None /\ ~q.called /\ ~q.inProgress /\ ~q.map /\ ~q.tilesInit
             /\ q.pending = {} /\ ~q.populated /\ ~q.rendered /\ ~q.told
             /\ q.state = p.state /\ q.tiles = p.tiles /\ q.ajax = p.ajax
<1> DEFINE q == reset_observer_state_for_retry(p)
<1>1. q \in Pages
  BY ZenonT(60) DEF reset_observer_state_for_retry, Pages
<1>2. /\ q.ws = None /\ ~q.called /\ ~q.inProgress /\ ~q.map /\ ~q.tilesInit
      /\ q.pending = {} /\ ~q.populated /\ ~q.rendered /\ ~q.told
  BY DEF reset_observer_state_for_retry, Pages
<1>3. q.state = p.state /\ q.tiles = p.tiles /\ q.ajax = p.ajax
  BY DEF reset_observer_state_for_retry, Pages
<1> QED BY <1>1, <1>2, <1>3

LEMMA SetStatePage ==
  ASSUME NEW p \in Pages, NEW new \in States, new = "RUNNING" => p.rendering < MaxTimers
  PROVE  LET q == set_client_state(p, new)
         IN  /\ q \in Pages /\ q.state = new
             /\ q.rendering = IF p.state # new /\ new = "RUNNING" THEN p.rendering + 1
                              ELSE p.rendering
             /\ SameConnection(p, q) /\ SameWorld(p, q) /\ SameFrames(p, q)
<1> DEFINE q == set_client_state(p, new)
<1>1. CASE p.state = new
  BY <1>1 DEF set_client_state, SameConnection, SameWorld, SameFrames
<1>2. CASE p.state # new /\ new # "RUNNING"
  <2>1. q = [p EXCEPT !.state = new]
    BY <1>2 DEF set_client_state
  <2>2. q \in Pages /\ q.state = new /\ q.rendering = p.rendering
    BY <2>1 DEF Pages
  <2>3. SameConnection(p, q) /\ SameWorld(p, q) /\ SameFrames(p, q)
    BY <2>1 DEF Pages, SameConnection, SameWorld, SameFrames
  <2> QED BY <1>2, <2>2, <2>3
<1>3. CASE p.state # new /\ new = "RUNNING"
  <2> DEFINE r == [p EXCEPT !.state = "RUNNING", !.loggedIn = FALSE]
  <2>1. q = renderer_init(r)
    BY <1>3 DEF set_client_state
  <2>2. r.state = "RUNNING" /\ r.rendering = p.rendering
    BY DEF Pages
  <2>3. q = [r EXCEPT !.rendering = p.rendering + 1]
    BY <2>1, <2>2 DEF renderer_init
  <2>4. p.rendering + 1 \in 0..MaxTimers
    BY <1>3, PageBounds, Bounds
  <2>5. r \in Pages
    BY DEF Pages, States
  <2>6. q \in Pages /\ q.state = "RUNNING" /\ q.rendering = p.rendering + 1
    BY <2>2, <2>3, <2>4, <2>5, ZenonT(60) DEF Pages
  <2>7. SameConnection(p, q) /\ SameWorld(p, q) /\ SameFrames(p, q)
    BY <2>3 DEF Pages, SameConnection, SameWorld, SameFrames
  <2> QED BY <1>3, <2>6, <2>7
<1> QED BY <1>1, <1>2, <1>3

\* Entering the game empties the buffer of tiles, and starts the renderer.
LEMMA UpdateStatePage ==
  ASSUME NEW p, PageInv(p), NEW new \in States, new = "RUNNING" => p.rendering < MaxTimers
  PROVE  LET q == update_client_state(p, new)
         IN  /\ PageInv(q) /\ q.state = new
             /\ q.called = p.called /\ q.ajax = p.ajax /\ q.told = p.told /\ q.ws = p.ws
             /\ q.map = p.map /\ q.tiles = p.tiles
             /\ q.pending = IF new = "RUNNING" THEN {} ELSE p.pending
<1> DEFINE r == set_client_state(p, new)
           q == update_client_state(p, new)
<1>0. p \in Pages
  BY DEF PageInv
<1>1. /\ r \in Pages /\ r.state = new
      /\ r.rendering = IF p.state # new /\ new = "RUNNING" THEN p.rendering + 1 ELSE p.rendering
      /\ SameConnection(p, r) /\ SameWorld(p, r) /\ SameFrames(p, r)
  BY <1>0, SetStatePage
<1>2. PageInv(r)
  <2>1. p.rendering \in Nat
    BY <1>0, PageBounds, Bounds
  <2> QED BY <1>1, <2>1 DEF PageInv, SameConnection, SameWorld, SameFrames
<1>3. CASE new # "RUNNING"
  <2>1. q = r
    BY <1>3 DEF update_client_state
  <2> QED BY <1>1, <1>2, <1>3, <2>1 DEF SameConnection, SameWorld
<1>4. CASE new = "RUNNING"
  <2> HIDE DEF r
  <2>1. q = [r EXCEPT !.count = 0, !.inProgress = FALSE, !.pending = {}]
    BY <1>4 DEF update_client_state, r
  <2>2. 0 \in 0..MaxRetries
    BY Bounds
  <2>3. q \in Pages
    BY <1>1, <2>1, <2>2, ZenonT(60) DEF Pages
  <2>4. ~q.inProgress /\ q.pending = {} /\ q.state = r.state /\ q.rendering = r.rendering
    BY <1>1, <2>1 DEF Pages
  <2>5. /\ q.called = r.called /\ q.ajax = r.ajax /\ q.told = r.told /\ q.ws = r.ws
        /\ q.retries = r.retries
        /\ q.map = r.map /\ q.tilesInit = r.tilesInit /\ q.tiles = r.tiles
        /\ q.populated = r.populated /\ SameFrames(r, q)
    BY <1>1, <2>1 DEF Pages, SameFrames
  <2>6. PageInv(q)
    BY <1>2, <2>3, <2>4, <2>5 DEF PageInv, SameFrames
  <2> QED BY <1>1, <1>4, <2>4, <2>5, <2>6 DEF SameConnection, SameWorld
<1> QED BY <1>3, <1>4

\* A map has come, with what was kept for it.
LEMMA MapPage ==
  ASSUME NEW p, PageInv(p), p.mapFrames < MaxTimers
  PROVE  LET q == TerrainPopulated(replay_pending_tile_packets(map_allocate(p)))
         IN  /\ PageInv(q) /\ q.map /\ q.tiles = p.pending /\ q.pending = {}
             /\ q.called = p.called /\ q.ajax = p.ajax /\ q.told = p.told /\ q.ws = p.ws
             /\ q.rendering = p.rendering /\ q.state = p.state
<1> DEFINE a == map_allocate(p)
           r == replay_pending_tile_packets(a)
           q == TerrainPopulated(r)
           late == r.rendered /\ ~r.terrainReady
<1>0. p \in Pages /\ p.mapFrames \in Nat /\ p.mapFrames + 1 \in 0..MaxTimers
  BY PageBounds, Bounds DEF PageInv
<1>1. a \in Pages
  BY <1>0 DEF map_allocate, Pages
<1>2. /\ a.map /\ a.tilesInit /\ a.tiles = {} /\ a.pending = p.pending
      /\ a.rendering = p.rendering /\ a.state = p.state
      /\ SameConnection(p, a) /\ SameFrames(p, a)
  BY <1>0 DEF map_allocate, Pages, SameConnection, SameFrames
<1> HIDE DEF a
<1>3. r = [a EXCEPT !.tiles = a.tiles \cup a.pending, !.pending = {}]
  BY DEF replay_pending_tile_packets
<1>4. r \in Pages
  BY <1>1, <1>3 DEF Pages
<1>5. /\ r.map /\ r.tilesInit /\ r.tiles = p.pending /\ r.pending = {}
      /\ r.rendering = p.rendering /\ r.state = p.state
  BY <1>1, <1>2, <1>3 DEF Pages
<1>6. SameConnection(p, r) /\ SameFrames(p, r)
  BY <1>1, <1>2, <1>3 DEF Pages, SameConnection, SameFrames
<1> HIDE DEF r
<1>7. q = [r EXCEPT !.populated = TRUE, !.mapFrames = IF late THEN r.mapFrames + 1 ELSE r.mapFrames]
  BY DEF TerrainPopulated
<1>8. (IF late THEN r.mapFrames + 1 ELSE r.mapFrames) \in 0..MaxTimers
  BY <1>0, <1>4, <1>6, PageBounds DEF SameFrames
<1>9. q \in Pages
  BY <1>4, <1>7, <1>8, ZenonT(60) DEF Pages
<1>10. /\ q.map /\ q.tilesInit /\ q.tiles = p.pending /\ q.pending = {}
       /\ q.rendering = p.rendering /\ q.state = p.state
  BY <1>4, <1>5, <1>7 DEF Pages
<1>11. /\ SameConnection(p, q) /\ q.populated
       /\ q.rendered = p.rendered /\ q.terrainReady = p.terrainReady
  BY <1>4, <1>6, <1>7 DEF Pages, SameConnection, SameFrames
<1>12. q.mapFrames = IF late THEN p.mapFrames + 1 ELSE p.mapFrames
  BY <1>4, <1>6, <1>7 DEF Pages, SameFrames
<1>13. q.state = "RUNNING" /\ ~q.terrainReady => q.rendering > 0 \/ q.mapFrames > 0
  <2>1. CASE late
    BY <1>0, <1>12, <2>1
  <2>2. CASE ~late
    BY <1>6, <1>10, <1>11, <2>2 DEF PageInv, SameFrames
  <2> QED BY <2>1, <2>2
<1> HIDE DEF q
<1>14. PageInv(q)
  BY <1>9, <1>10, <1>11, <1>13 DEF PageInv, SameConnection
<1> QED BY <1>10, <1>11, <1>14 DEF SameConnection, q, r, a

LEMMA MapInfoPage ==
  ASSUME NEW p, PageInv(p), p.mapFrames < MaxTimers, p.rendering < MaxTimers
  PROVE  LET q == handle_map_info(p)
         IN  /\ PageInv(q) /\ q.map /\ q.tiles = p.pending
             /\ q.called = p.called /\ q.ajax = p.ajax /\ q.told = p.told /\ q.ws = p.ws
<1> DEFINE r == TerrainPopulated(replay_pending_tile_packets(map_allocate(p)))
           q == handle_map_info(p)
<1>1. /\ PageInv(r) /\ r.map /\ r.tiles = p.pending /\ r.pending = {}
      /\ r.called = p.called /\ r.ajax = p.ajax /\ r.told = p.told /\ r.ws = p.ws
      /\ r.rendering = p.rendering
  BY MapPage
<1>2. q = r \/ q = update_client_state(r, "RUNNING")
  BY DEF handle_map_info
<1> HIDE DEF r
<1>3. CASE q = r
  BY <1>1, <1>3
<1>4. CASE q = update_client_state(r, "RUNNING")
  <2> HIDE DEF q
  <2>1. /\ PageInv(q) /\ q.map = r.map /\ q.tiles = r.tiles
        /\ q.called = r.called /\ q.ajax = r.ajax /\ q.told = r.told /\ q.ws = r.ws
    BY <1>1, <1>4, UpdateStatePage DEF States
  <2> QED BY <1>1, <2>1 DEF q
<1> QED BY <1>2, <1>3, <1>4

\* game_info starts the game only with a map.
LEMMA GameInfoPage ==
  ASSUME NEW p, PageInv(p), p.rendering < MaxTimers, NEW turn \in BOOLEAN
  PROVE  LET q == handle_game_info(p, turn)
         IN  /\ PageInv(q) /\ (q.state # p.state => q.map)
             /\ q.called = p.called /\ q.ajax = p.ajax /\ q.told = p.told /\ q.ws = p.ws
             /\ q.map = p.map /\ q.tiles = p.tiles
             /\ p.pending \subseteq q.tiles \cup q.pending
<1> DEFINE r == [p EXCEPT !.started = turn]
           q == handle_game_info(p, turn)
<1>0. p \in Pages
  BY DEF PageInv
<1>1. r \in Pages /\ r.state = p.state /\ r.rendering = p.rendering
  BY <1>0 DEF Pages
<1>2. SameConnection(p, r) /\ SameWorld(p, r) /\ SameFrames(p, r)
  BY <1>0 DEF Pages, SameConnection, SameWorld, SameFrames
<1>3. PageInv(r)
  BY <1>1, <1>2 DEF PageInv, SameConnection, SameWorld, SameFrames
<1>4. q = r \/ (q = update_client_state(r, "RUNNING") /\ r.map)
  BY DEF handle_game_info
<1> HIDE DEF r
<1>5. CASE q = r
  <2> HIDE DEF q
  <2>1. PageInv(q) /\ q.state = p.state
    BY <1>1, <1>3, <1>5
  <2>2. SameConnection(p, q) /\ SameWorld(p, q)
    BY <1>2, <1>5
  <2>3. p.pending \subseteq q.tiles \cup q.pending
    BY <2>2 DEF SameWorld
  <2> QED BY <2>1, <2>2, <2>3 DEF SameConnection, SameWorld, q
<1>6. CASE q = update_client_state(r, "RUNNING") /\ r.map
  <2> HIDE DEF q
  <2>1. /\ PageInv(q) /\ q.state = "RUNNING"
        /\ q.called = r.called /\ q.ajax = r.ajax /\ q.told = r.told /\ q.ws = r.ws
        /\ q.map = r.map /\ q.tiles = r.tiles /\ q.pending = {}
    BY <1>1, <1>3, <1>6, UpdateStatePage DEF States
  <2>2. p.pending = {}
    BY <1>2, <1>6 DEF PageInv, SameWorld
  <2> QED BY <1>2, <1>6, <2>1, <2>2 DEF SameConnection, SameWorld, q
<1> QED BY <1>4, <1>5, <1>6

LEMMA TilePage ==
  ASSUME NEW p, PageInv(p), NEW t \in Tile
  PROVE  LET q == handle_tile_info(p, t)
         IN  /\ PageInv(q) /\ q.state = p.state
             /\ q.called = p.called /\ q.ajax = p.ajax /\ q.told = p.told /\ q.ws = p.ws
             /\ q.map = p.map
             /\ ~Overflows(p) =>
                  p.tiles \cup p.pending \cup {t} \subseteq q.tiles \cup q.pending
<1> DEFINE q == handle_tile_info(p, t)
<1>0. p \in Pages
  BY DEF PageInv
<1>1. \/ q = [p EXCEPT !.tiles = p.tiles \cup {t}] /\ p.tilesInit
      \/ q = [p EXCEPT !.pending = {}] /\ Overflows(p) /\ ~p.tilesInit
      \/ q = [p EXCEPT !.pending = p.pending \cup {t}] /\ ~p.tilesInit
  BY DEF handle_tile_info
<1>2. q \in Pages
  BY <1>0, <1>1 DEF Pages
<1>3. q.state = p.state /\ q.rendering = p.rendering /\ SameConnection(p, q) /\ SameFrames(p, q)
  BY <1>0, <1>1 DEF Pages, SameConnection, SameFrames
<1>4. q.map = p.map /\ q.tilesInit = p.tilesInit /\ q.populated = p.populated
  BY <1>0, <1>1 DEF Pages
<1>5. p.tilesInit => q.pending = p.pending
  BY <1>0, <1>1 DEF Pages
<1>6. ~Overflows(p) => p.tiles \cup p.pending \cup {t} \subseteq q.tiles \cup q.pending
  BY <1>0, <1>1 DEF Pages
<1> HIDE DEF q
<1>7. PageInv(q)
  BY <1>2, <1>3, <1>4, <1>5 DEF PageInv, SameConnection, SameFrames
<1> QED BY <1>3, <1>4, <1>6, <1>7 DEF SameConnection, q

-----------------------------------------------------------------------------
(***************************************************************************)
(* Steps                                                                   *)
(***************************************************************************)
LEMMA ClientInitInv == Init => ClientInv
<1> SUFFICES ASSUME Init PROVE ClientInv
  OBVIOUS
<1>1. page = [BlankPage EXCEPT !.called = TRUE, !.ajax = 1]
  BY DEF Init, network_init, BlankPage
<1>2. BlankPage \in Pages /\ 1 \in 0..MaxTimers
  BY BlankPageType, Bounds
<1>3. page \in Pages
  BY <1>1, <1>2 DEF Pages
<1>4. /\ page.called /\ page.ajax = 1 /\ page.ws = None /\ page.inProgress = FALSE
      /\ page.map = FALSE /\ page.tilesInit = FALSE /\ page.pending = {}
      /\ page.populated = FALSE /\ page.state = "INITIAL"
  BY <1>1 DEF BlankPage
<1>5. /\ sock = [s \in Sock |-> FreeSock] /\ got = {}
      /\ FreeSock \in Socks /\ FreeSock.mapSent = FALSE
  BY DEF Init, FreeSock, Socks
<1>6. PageInv(page)
  BY <1>3, <1>4 DEF PageInv
<1> QED BY <1>4, <1>5, <1>6 DEF ClientInv, Waits, MapsKnown, TilesKept

LEMMA NewSock == FreeSock \in Socks /\ FreeSock.ready = "free" /\ FreeSock.mapSent = FALSE
  BY DEF FreeSock, Socks

\* One WebSocket of all is in another state.
LEMMA SockGoes ==
  ASSUME sock \in [Sock -> Socks], NEW s \in Sock, NEW c \in Socks,
         sock' = [sock EXCEPT ![s] = c]
  PROVE  /\ sock' \in [Sock -> Socks] /\ sock'[s] = c
         /\ \A o \in Sock : o # s => sock'[o] = sock[o]
  OBVIOUS

\* A callback that leaves the tiles and `ws` alone, while no WebSocket is
\* freed or sent a map.
LEMMA QuietStep ==
  ASSUME ClientInv, PageInv(page'), sock' \in [Sock -> Socks],
         page'.ws = page.ws, page'.map = page.map, got' = got,
         page.tiles \cup page.pending \subseteq page'.tiles \cup page'.pending,
         \A s \in Sock : /\ sock'[s].ready = "free" <=> sock[s].ready = "free"
                         /\ sock'[s].mapSent = sock[s].mapSent,
         \/ page'.told \/ page'.ajax > 0 \/ ~page'.called
         \/ page.called /\ page.ajax <= page'.ajax /\ (page.told => page'.told)
  PROVE  ClientInv'
<1>1. page.ws \in Sock \cup {None} /\ page.ajax \in Nat /\ page'.ajax \in Nat
  BY PageBounds, Bounds DEF ClientInv, PageInv
<1>2. Waits(page', sock')
  BY <1>1 DEF ClientInv, Waits
<1>3. MapsKnown(page', sock')
  BY <1>1, Bounds DEF ClientInv, MapsKnown
<1>4. TilesKept(page', got') /\ got' \subseteq Tile
  BY DEF ClientInv, TilesKept
<1> QED BY <1>2, <1>3, <1>4 DEF ClientInv, Waits, MapsKnown, TilesKept

LEMMA ClientInvNow ==
  ClientInv => /\ page \in Pages /\ PageInv(page) /\ sock \in [Sock -> Socks] /\ got \subseteq Tile
               /\ Waits(page, sock) /\ MapsKnown(page, sock) /\ TilesKept(page, got)
  BY DEF ClientInv, PageInv

LEMMA websocket_initStep == ClientInv /\ websocket_init => ClientInv'
<1> SUFFICES ASSUME ClientInv, websocket_init PROVE ClientInv'
  OBVIOUS
<1>0. /\ page \in Pages /\ PageInv(page) /\ sock \in [Sock -> Socks] /\ got \subseteq Tile
      /\ MapsKnown(page, sock) /\ TilesKept(page, got)
  BY ClientInvNow
<1>1. PICK s \in Sock :
        /\ sock[s].ready = "free" /\ s # page.ws
        /\ sock' = [sock EXCEPT ![s].ready = "connecting"]
        /\ page' = [page EXCEPT !.ajax = @ - 1, !.ws = s]
  BY DEF websocket_init
<1>2. page.ajax > 0 /\ got' = got
  BY DEF websocket_init
<1>3. page.ajax - 1 \in 0..MaxTimers
  BY <1>0, <1>2, PageBounds, Bounds
<1>4. page' \in Pages
  BY <1>0, <1>1, <1>3 DEF Pages
<1>5. /\ page'.ws = s /\ page'.called = page.called /\ page'.inProgress = page.inProgress
      /\ page'.retries = page.retries /\ page'.state = page.state
      /\ page'.rendering = page.rendering
  BY <1>0, <1>1 DEF Pages
<1>6. SameWorld(page, page') /\ SameFrames(page, page')
  BY <1>0, <1>1 DEF Pages, SameWorld, SameFrames
<1>7. PageInv(page')
  BY <1>0, <1>4, <1>5, <1>6 DEF PageInv, SameWorld, SameFrames
<1>8. /\ sock' \in [Sock -> Socks] /\ sock'[s].ready = "connecting"
      /\ sock'[s].mapSent = sock[s].mapSent /\ \A o \in Sock : o # s => sock'[o] = sock[o]
  <2> DEFINE c == [sock[s] EXCEPT !.ready = "connecting"]
  <2>1. c \in Socks /\ c.ready = "connecting" /\ c.mapSent = sock[s].mapSent
    BY <1>0 DEF Socks
  <2>2. sock' = [sock EXCEPT ![s] = c]
    BY <1>1
  <2> HIDE DEF c
  <2> QED BY <1>0, <2>1, <2>2, SockGoes
<1>9. Waits(page', sock')
  BY <1>8 DEF Waits
<1>10. MapsKnown(page', sock')
  BY <1>0, <1>1, <1>5, <1>8 DEF MapsKnown
<1>11. TilesKept(page', got')
  BY <1>0, <1>2, <1>6 DEF TilesKept, SameWorld
<1> QED BY <1>0, <1>2, <1>7, <1>8, <1>9, <1>10, <1>11 DEF ClientInv

\* A page that changes in what no part of the invariant is about.
LEMMA SamePage ==
  ASSUME NEW p, PageInv(p), NEW q \in Pages, q.state = p.state, q.rendering = p.rendering,
         SameConnection(p, q), SameWorld(p, q), SameFrames(p, q)
  PROVE  PageInv(q)
  BY DEF PageInv, SameConnection, SameWorld, SameFrames

LEMMA LaunchFailsStep == ClientInv /\ LaunchFails => ClientInv'
<1> SUFFICES ASSUME ClientInv, LaunchFails PROVE ClientInv'
  OBVIOUS
<1>0. page \in Pages /\ PageInv(page) /\ sock \in [Sock -> Socks]
  BY ClientInvNow
<1>1. /\ page.ajax > 0 /\ page' = [page EXCEPT !.ajax = @ - 1, !.told = TRUE]
      /\ sock' = sock /\ got' = got
  BY DEF LaunchFails
<1>3. page.ajax - 1 \in 0..MaxTimers
  BY <1>0, <1>1, PageBounds, Bounds
<1>4. page' \in Pages /\ page'.told
  BY <1>0, <1>1, <1>3 DEF Pages
<1>5. /\ page'.ws = page.ws /\ page'.called = page.called /\ page'.inProgress = page.inProgress
      /\ page'.retries = page.retries /\ page'.state = page.state
      /\ page'.rendering = page.rendering
  BY <1>0, <1>1 DEF Pages
<1>6. SameWorld(page, page') /\ SameFrames(page, page')
  BY <1>0, <1>1 DEF Pages, SameWorld, SameFrames
<1>7. PageInv(page')
  BY <1>0, <1>4, <1>5, <1>6 DEF PageInv, SameWorld, SameFrames
<1> QED BY <1>0, <1>1, <1>4, <1>5, <1>6, <1>7, QuietStep DEF SameWorld

\* The login is sent, or the poll starts anew.
LEMMA CheckReady ==
  ASSUME NEW p, NEW k \in [Sock -> Socks], PageInv(p), p.polls < MaxTimers,
         check_websocket_ready(p, k)
  PROVE  /\ PageInv(page') /\ SameConnection(p, page') /\ SameWorld(p, page')
         /\ sock' \in [Sock -> Socks] /\ page'.state = p.state
         /\ \A s \in Sock : sock'[s].ready = k[s].ready /\ sock'[s].mapSent = k[s].mapSent
<1>0. p \in Pages
  BY DEF PageInv
<1>1. CASE p.ws # None /\ k[p.ws].ready = "open"
  <2> DEFINE c == [k[p.ws] EXCEPT !.srv = IF @ = "login" THEN "answer" ELSE @]
  <2>1. p.ws \in Sock
    BY <1>0, <1>1, PageBounds
  <2>2. c \in Socks /\ c.ready = k[p.ws].ready /\ c.mapSent = k[p.ws].mapSent
    BY <2>1 DEF Socks
  <2>3. page' = p /\ sock' = [k EXCEPT ![p.ws] = c]
    BY <1>1 DEF check_websocket_ready
  <2> HIDE DEF c
  <2> QED BY <2>1, <2>2, <2>3 DEF SameConnection, SameWorld
<1>2. CASE ~(p.ws # None /\ k[p.ws].ready = "open")
  <2>1. page' = [p EXCEPT !.polls = p.polls + 1] /\ sock' = k
    BY <1>2 DEF check_websocket_ready
  <2>2. p.polls + 1 \in 0..MaxTimers
    BY <1>0, PageBounds, Bounds
  <2>3. page' \in Pages /\ page'.state = p.state /\ page'.rendering = p.rendering
    BY <1>0, <2>1, <2>2 DEF Pages
  <2>4. SameConnection(p, page') /\ SameWorld(p, page') /\ SameFrames(p, page')
    BY <1>0, <2>1 DEF Pages, SameConnection, SameWorld, SameFrames
  <2> QED BY <2>1, <2>3, <2>4, SamePage
<1> QED BY <1>1, <1>2

\* QuietStep, where the page agrees on the connection and on the world.
LEMMA SameStep ==
  ASSUME ClientInv, PageInv(page'), sock' \in [Sock -> Socks], got' = got,
         SameConnection(page, page'), SameWorld(page, page'),
         \A s \in Sock : /\ sock'[s].ready = "free" <=> sock[s].ready = "free"
                         /\ sock'[s].mapSent = sock[s].mapSent
  PROVE  ClientInv'
<1>1. page.ajax \in Nat
  BY ClientInvNow, PageBounds, Bounds
<1> QED BY <1>1, QuietStep DEF SameConnection, SameWorld

LEMMA onopenStep == ASSUME ClientInv, NEW s \in Sock, onopen(s)
                     PROVE  ClientInv' /\ page'.state = page.state
<1> DEFINE c == [sock[s] EXCEPT !.ready = "open"]
           k == [sock EXCEPT ![s] = c]
<1>0. page \in Pages /\ PageInv(page) /\ sock \in [Sock -> Socks]
  BY ClientInvNow
<1>1. c \in Socks /\ c.ready = "open" /\ c.mapSent = sock[s].mapSent
  BY <1>0 DEF Socks
<1>2. /\ sock[s].ready = "connecting" /\ page.polls < MaxTimers
      /\ check_websocket_ready(page, k) /\ got' = got
  BY DEF onopen
<1> HIDE DEF c
<1>3. /\ k \in [Sock -> Socks]
      /\ \A o \in Sock : /\ k[o].ready = "free" <=> sock[o].ready = "free"
                          /\ k[o].mapSent = sock[o].mapSent
  BY <1>0, <1>1, <1>2
<1> HIDE DEF k
<1>4. /\ PageInv(page') /\ SameConnection(page, page') /\ SameWorld(page, page')
      /\ sock' \in [Sock -> Socks] /\ page'.state = page.state
      /\ \A o \in Sock : sock'[o].ready = k[o].ready /\ sock'[o].mapSent = k[o].mapSent
  BY <1>0, <1>2, <1>3, CheckReady
<1>5. \A o \in Sock : /\ sock'[o].ready = "free" <=> sock[o].ready = "free"
                      /\ sock'[o].mapSent = sock[o].mapSent
  <2> TAKE o \in Sock
  <2>1. sock'[o].ready = k[o].ready /\ sock'[o].mapSent = k[o].mapSent
    BY <1>4
  <2>2. /\ k[o].ready = "free" <=> sock[o].ready = "free"
        /\ k[o].mapSent = sock[o].mapSent
    <3>1. CASE o = s
      BY <1>0, <1>1, <1>2, <3>1 DEF k
    <3>2. CASE o # s
      BY <1>0, <3>2 DEF k
    <3> QED BY <3>1, <3>2
  <2> QED BY <2>1, <2>2, Zenon
<1>6. got' = got
  BY <1>2
<1> QED BY <1>4, <1>5, <1>6, SameStep

LEMMA PollReadyStep == ClientInv /\ PollReady => ClientInv' /\ page'.state = page.state
<1> SUFFICES ASSUME ClientInv, PollReady PROVE ClientInv' /\ page'.state = page.state
  OBVIOUS
<1> DEFINE p == [page EXCEPT !.polls = @ - 1]
<1>0. page \in Pages /\ PageInv(page) /\ sock \in [Sock -> Socks]
  BY ClientInvNow
<1>1. page.polls > 0 /\ check_websocket_ready(p, sock) /\ got' = got
  BY DEF PollReady
<1>2. page.polls - 1 \in 0..MaxTimers /\ page.polls - 1 < MaxTimers
  BY <1>0, <1>1, PageBounds, Bounds
<1>3. /\ p \in Pages /\ p.polls < MaxTimers
      /\ p.state = page.state /\ p.rendering = page.rendering
  BY <1>0, <1>2 DEF Pages
<1>4. SameConnection(page, p) /\ SameWorld(page, p) /\ SameFrames(page, p)
  BY <1>0 DEF Pages, SameConnection, SameWorld, SameFrames
<1> HIDE DEF p
<1>5. PageInv(p)
  BY <1>0, <1>3, <1>4, SamePage
<1>6. /\ PageInv(page') /\ SameConnection(p, page') /\ SameWorld(p, page')
      /\ sock' \in [Sock -> Socks] /\ page'.state = p.state
      /\ \A o \in Sock : sock'[o].ready = sock[o].ready /\ sock'[o].mapSent = sock[o].mapSent
  BY <1>0, <1>1, <1>3, <1>5, CheckReady
<1>7. SameConnection(page, page') /\ SameWorld(page, page')
  BY <1>4, <1>6 DEF SameConnection, SameWorld
<1> QED BY <1>1, <1>3, <1>6, <1>7, SameStep

\* Retry() keeps a timer for the page it forgot.
LEMMA RetryStep ==
  ASSUME ClientInv, NEW p, PageInv(p), p.count < MaxRetries, NEW busy \in BOOLEAN,
         NEW k \in [Sock -> Socks], \A s \in Sock : k[s].ready = "free" => ~k[s].mapSent,
         p.state # "RUNNING", Retry(p, k, busy)
  PROVE  ClientInv' /\ page'.state = p.state
<1> DEFINE r == reset_observer_state_for_retry(p)
<1>0. p \in Pages
  BY DEF PageInv
<1>1. /\ p.retries < MaxTimers
      /\ page' = [r EXCEPT !.count = p.count + 1, !.inProgress = busy, !.retries = p.retries + 1]
      /\ sock' = StopSock(k, p.ws) /\ got' = {}
  BY DEF Retry
<1>2. /\ r \in Pages /\ r.ws = None /\ ~r.called /\ ~r.map /\ ~r.tilesInit
      /\ r.pending = {} /\ ~r.populated /\ r.state = p.state
  BY <1>0, ResetPage
<1>3. p.count + 1 \in 0..MaxRetries /\ p.retries + 1 \in 0..MaxTimers /\ p.retries + 1 > 0
  BY <1>0, <1>1, PageBounds, Bounds
<1> HIDE DEF r
<1>4. page' \in Pages /\ page'.retries = p.retries + 1 /\ page'.state = r.state
  BY <1>1, <1>2, <1>3, ZenonT(60) DEF Pages
<1>5. /\ page'.ws = None /\ page'.called = r.called /\ page'.map = r.map
      /\ page'.tilesInit = r.tilesInit /\ page'.populated = r.populated
      /\ page'.pending = {} /\ page'.tiles = r.tiles
  BY <1>1, <1>2 DEF Pages
<1>6. PageInv(page')
  BY <1>2, <1>3, <1>4, <1>5 DEF PageInv
<1>7. /\ sock' \in [Sock -> Socks]
      /\ \A s \in Sock : sock'[s].ready = "free" => ~sock'[s].mapSent
  <2>1. CASE p.ws = None \/ k[p.ws].ready = "free"
    BY <1>1, <2>1 DEF StopSock
  <2>2. CASE ~(p.ws = None \/ k[p.ws].ready = "free")
    <3> DEFINE c == [k[p.ws] EXCEPT !.ready = "closing"]
    <3>1. p.ws \in Sock
      BY <1>0, <2>2, PageBounds
    <3>2. c \in Socks /\ c.ready = "closing"
      BY <3>1 DEF Socks
    <3>3. sock' = [k EXCEPT ![p.ws] = c]
      BY <1>1, <2>2 DEF StopSock
    <3> HIDE DEF c
    <3> QED BY <3>1, <3>2, <3>3
  <2> QED BY <2>1, <2>2
<1>8. Waits(page', sock')
  BY <1>2, <1>5 DEF Waits
<1>9. MapsKnown(page', sock')
  BY <1>5, <1>7 DEF MapsKnown
<1>10. TilesKept(page', got') /\ got' \subseteq Tile
  BY <1>1 DEF TilesKept
<1> QED BY <1>2, <1>4, <1>6, <1>7, <1>8, <1>9, <1>10 DEF ClientInv

LEMMA oncloseStep ==
  ASSUME ClientInv, NEW s \in Sock, onclose(s)
  PROVE  ClientInv' /\ page'.state = page.state
<1> DEFINE k == [sock EXCEPT ![s] = FreeSock]
<1>0. /\ page \in Pages /\ PageInv(page) /\ sock \in [Sock -> Socks] /\ got \subseteq Tile
      /\ MapsKnown(page, sock) /\ TilesKept(page, got)
  BY ClientInvNow
<1>1. /\ k \in [Sock -> Socks] /\ ~k[s].mapSent
      /\ \A o \in Sock : o # s => k[o] = sock[o]
  BY <1>0, NewSock
<1>2. \A o \in Sock : k[o].ready = "free" => ~k[o].mapSent
  BY <1>0, <1>1 DEF MapsKnown
<1>3. CASE page.state # "RUNNING" /\ page.count < MaxRetries /\ Retry(page, k, TRUE)
  BY <1>0, <1>1, <1>2, <1>3, RetryStep
<1>4. CASE page' = [page EXCEPT !.told = TRUE] /\ sock' = k /\ got' = got
  <2>1. page' \in Pages /\ page'.told
    BY <1>0, <1>4 DEF Pages
  <2>2. /\ page'.ws = page.ws /\ page'.called = page.called /\ page'.inProgress = page.inProgress
        /\ page'.retries = page.retries /\ page'.state = page.state
        /\ page'.rendering = page.rendering
    BY <1>0, <1>4 DEF Pages
  <2>3. SameWorld(page, page') /\ SameFrames(page, page')
    BY <1>0, <1>4 DEF Pages, SameWorld, SameFrames
  <2>4. PageInv(page')
    BY <1>0, <2>1, <2>2, <2>3 DEF PageInv, SameWorld, SameFrames
  <2> HIDE DEF k
  <2>5. page.ws # None => page.ws \in Sock
    BY <1>0, PageBounds
  <2>6. MapsKnown(page', sock')
    BY <1>0, <1>1, <1>2, <1>4, <2>2, <2>3, <2>5 DEF MapsKnown, SameWorld
  <2>7. TilesKept(page', got')
    BY <1>0, <1>4, <2>3 DEF TilesKept, SameWorld
  <2> QED BY <1>0, <1>1, <1>4, <2>1, <2>2, <2>4, <2>6, <2>7 DEF ClientInv, Waits
<1>5. \/ page.state # "RUNNING" /\ page.count < MaxRetries /\ Retry(page, k, TRUE)
      \/ page' = [page EXCEPT !.told = TRUE] /\ sock' = k /\ got' = got
  BY DEF onclose
<1> QED BY <1>3, <1>4, <1>5

LEMMA RetryTimerStep == ClientInv /\ RetryTimer => ClientInv' /\ page'.state = page.state
<1> SUFFICES ASSUME ClientInv, RetryTimer PROVE ClientInv' /\ page'.state = page.state
  OBVIOUS
<1> DEFINE r == network_init(page)
<1>0. page \in Pages /\ PageInv(page) /\ sock \in [Sock -> Socks] /\ Waits(page, sock)
  BY ClientInvNow
<1>1. /\ page.retries > 0 /\ page.ajax < MaxTimers /\ sock' = sock /\ got' = got
      /\ page' = [r EXCEPT !.retries = @ - 1, !.inProgress = FALSE]
  BY DEF RetryTimer
<1>2. /\ r \in Pages /\ r.called /\ r.ajax = (IF page.called THEN page.ajax ELSE page.ajax + 1)
      /\ r.ws = page.ws /\ r.told = page.told /\ r.retries = page.retries
      /\ r.state = page.state /\ r.rendering = page.rendering
      /\ SameWorld(page, r) /\ SameFrames(page, r)
  BY <1>0, <1>1, NetworkInitPage
<1>3. page.retries - 1 \in 0..MaxTimers /\ page.ajax \in Nat
  BY <1>0, <1>1, PageBounds, Bounds
<1> HIDE DEF r
<1>4. page' \in Pages /\ ~page'.inProgress /\ page'.called
  BY <1>1, <1>2, <1>3 DEF Pages
<1>5. /\ page'.ajax = r.ajax /\ page'.ws = page.ws /\ page'.told = page.told
      /\ page'.state = page.state /\ page'.rendering = page.rendering
  BY <1>1, <1>2 DEF Pages
<1>6. SameWorld(r, page') /\ SameFrames(r, page')
  BY <1>1, <1>2 DEF Pages, SameWorld, SameFrames
<1>7. SameWorld(page, page') /\ SameFrames(page, page')
  BY <1>2, <1>6 DEF SameWorld, SameFrames
<1>8. PageInv(page')
  BY <1>0, <1>4, <1>5, <1>7 DEF PageInv, SameWorld, SameFrames
<1>9. \/ page'.told \/ page'.ajax > 0
      \/ page.called /\ page.ajax <= page'.ajax /\ (page.told => page'.told)
  BY <1>2, <1>3, <1>5
<1> QED BY <1>0, <1>1, <1>5, <1>7, <1>8, <1>9, QuietStep DEF SameWorld

LEMMA TimeoutStep ==
  ClientInv /\ handle_observer_timeout_with_retry => ClientInv' /\ page'.state = page.state
<1> SUFFICES ASSUME ClientInv, handle_observer_timeout_with_retry
             PROVE  ClientInv' /\ page'.state = page.state
  OBVIOUS
<1> DEFINE p == [page EXCEPT !.timeouts = @ - 1]
<1>0. /\ page \in Pages /\ PageInv(page) /\ sock \in [Sock -> Socks] /\ MapsKnown(page, sock)
  BY ClientInvNow
<1>1. /\ page.timeouts > 0
      /\ \/ page' = p /\ sock' = sock /\ got' = got
         \/ page' = [p EXCEPT !.told = TRUE] /\ sock' = sock /\ got' = got
         \/ p.state # "RUNNING" /\ p.count < MaxRetries /\ Retry(p, sock, FALSE)
  BY DEF handle_observer_timeout_with_retry
<1>2. page.timeouts - 1 \in 0..MaxTimeouts
  BY <1>0, <1>1, PageBounds, Bounds
<1>3. p \in Pages /\ p.state = page.state /\ p.rendering = page.rendering
  BY <1>0, <1>2 DEF Pages
<1>4. SameConnection(page, p) /\ SameWorld(page, p) /\ SameFrames(page, p)
  BY <1>0 DEF Pages, SameConnection, SameWorld, SameFrames
<1> HIDE DEF p
<1>5. PageInv(p)
  BY <1>0, <1>3, <1>4, SamePage
<1>6. CASE page' = p /\ sock' = sock /\ got' = got
  BY <1>0, <1>3, <1>4, <1>5, <1>6, SameStep
<1>7. CASE page' = [p EXCEPT !.told = TRUE] /\ sock' = sock /\ got' = got
  <2>1. page' \in Pages /\ page'.told
    BY <1>3, <1>7 DEF Pages
  <2>2. /\ page'.ws = p.ws /\ page'.called = p.called /\ page'.inProgress = p.inProgress
        /\ page'.retries = p.retries /\ page'.state = p.state /\ page'.rendering = p.rendering
    BY <1>3, <1>7 DEF Pages
  <2>3. SameWorld(p, page') /\ SameFrames(p, page')
    BY <1>3, <1>7 DEF Pages, SameWorld, SameFrames
  <2>4. PageInv(page')
    BY <1>5, <2>1, <2>2, <2>3 DEF PageInv, SameWorld, SameFrames
  <2> QED BY <1>0, <1>3, <1>4, <1>7, <2>1, <2>2, <2>3, <2>4, QuietStep DEF SameConnection, SameWorld
<1>8. CASE p.state # "RUNNING" /\ p.count < MaxRetries /\ Retry(p, sock, FALSE)
  BY <1>0, <1>3, <1>5, <1>8, RetryStep DEF MapsKnown
<1> QED BY <1>1, <1>6, <1>7, <1>8

-----------------------------------------------------------------------------
(***************************************************************************)
(* Packets                                                                 *)
(***************************************************************************)

\* How far the civserver is with a client has no part in the invariant.
LEMMA ServerStep ==
  ASSUME sock \in [Sock -> Socks], NEW s \in Sock,
         NEW v \in {"login", "answer", "greet", "in", "refused"},
         sock' = [sock EXCEPT ![s].srv = v]
  PROVE  /\ sock' \in [Sock -> Socks]
         /\ \A o \in Sock : sock'[o].ready = sock[o].ready /\ sock'[o].mapSent = sock[o].mapSent
<1> DEFINE c == [sock[s] EXCEPT !.srv = v]
<1>1. c \in Socks /\ c.ready = sock[s].ready /\ c.mapSent = sock[s].mapSent
  BY DEF Socks
<1>2. sock' = [sock EXCEPT ![s] = c]
  OBVIOUS
<1> HIDE DEF c
<1> QED BY <1>1, <1>2

LEMMA JoinReplyStep ==
  ASSUME ClientInv, NEW s \in Sock, handle_server_join_reply(s)
  PROVE  ClientInv' /\ (page'.state = page.state \/ page'.state # "RUNNING")
<1> DEFINE q == set_client_state(page, "PREPARING")
<1>0. page \in Pages /\ PageInv(page) /\ sock \in [Sock -> Socks]
  BY ClientInvNow
<1>1. /\ page.waits < MaxTimers /\ got' = got
      /\ \/ sock' = [sock EXCEPT ![s].srv = "greet"] /\ page' = [q EXCEPT !.waits = @ + 1]
         \/ sock' = [sock EXCEPT ![s].srv = "greet"] /\ page' = page
         \/ sock' = [sock EXCEPT ![s].srv = "refused"] /\ page' = [page EXCEPT !.told = TRUE]
  BY DEF handle_server_join_reply
<1>2. /\ sock' \in [Sock -> Socks]
      /\ \A o \in Sock : sock'[o].ready = sock[o].ready /\ sock'[o].mapSent = sock[o].mapSent
  BY <1>0, <1>1, ServerStep
<1>3. CASE page' = [q EXCEPT !.waits = @ + 1]
  <2>1. /\ q \in Pages /\ q.state = "PREPARING" /\ q.rendering = page.rendering
        /\ SameConnection(page, q) /\ SameWorld(page, q) /\ SameFrames(page, q)
    BY <1>0, SetStatePage DEF States
  <2>2. q.waits + 1 \in 0..MaxTimers
    <3>1. q.waits = page.waits
      BY <1>0 DEF set_client_state, Pages
    <3> QED BY <1>0, <1>1, <3>1, PageBounds, Bounds
  <2> HIDE DEF q
  <2>3. page' \in Pages /\ page'.state = q.state /\ page'.rendering = q.rendering
    BY <1>3, <2>1, <2>2 DEF Pages
  <2>4. SameConnection(q, page') /\ SameWorld(q, page') /\ SameFrames(q, page')
    BY <1>3, <2>1 DEF Pages, SameConnection, SameWorld, SameFrames
  <2>5. SameConnection(page, page') /\ SameWorld(page, page') /\ SameFrames(page, page')
    BY <2>1, <2>4 DEF SameConnection, SameWorld, SameFrames
  <2>6. PageInv(page') /\ page'.state = "PREPARING"
    BY <1>0, <2>1, <2>3, <2>5 DEF PageInv, SameConnection, SameWorld, SameFrames
  <2> QED BY <1>1, <1>2, <2>5, <2>6, SameStep
<1>4. CASE page' = page
  BY <1>0, <1>1, <1>2, <1>4, SameStep DEF SameConnection, SameWorld
<1>5. CASE page' = [page EXCEPT !.told = TRUE]
  <2>1. page' \in Pages /\ page'.told
    BY <1>0, <1>5 DEF Pages
  <2>2. /\ page'.ws = page.ws /\ page'.called = page.called /\ page'.inProgress = page.inProgress
        /\ page'.retries = page.retries /\ page'.state = page.state
        /\ page'.rendering = page.rendering
    BY <1>0, <1>5 DEF Pages
  <2>3. SameWorld(page, page') /\ SameFrames(page, page')
    BY <1>0, <1>5 DEF Pages, SameWorld, SameFrames
  <2>4. PageInv(page')
    BY <1>0, <2>1, <2>2, <2>3 DEF PageInv, SameWorld, SameFrames
  <2> QED BY <1>1, <1>2, <2>1, <2>2, <2>3, <2>4, QuietStep DEF SameWorld
<1> QED BY <1>1, <1>3, <1>4, <1>5

LEMMA ChatStep ==
  ASSUME ClientInv, NEW s \in Sock, handle_chat_msg(s)
  PROVE  ClientInv' /\ page'.state = page.state
<1>0. page \in Pages /\ PageInv(page) /\ sock \in [Sock -> Socks]
  BY ClientInvNow
<1>1. /\ sock' = [sock EXCEPT ![s].srv = "in"] /\ page' = [page EXCEPT !.loggedIn = TRUE]
      /\ got' = got
  BY DEF handle_chat_msg
<1>2. /\ sock' \in [Sock -> Socks]
      /\ \A o \in Sock : sock'[o].ready = sock[o].ready /\ sock'[o].mapSent = sock[o].mapSent
  BY <1>0, <1>1, ServerStep
<1>3. page' \in Pages /\ page'.state = page.state /\ page'.rendering = page.rendering
  BY <1>0, <1>1 DEF Pages
<1>4. SameConnection(page, page') /\ SameWorld(page, page') /\ SameFrames(page, page')
  BY <1>0, <1>1 DEF Pages, SameConnection, SameWorld, SameFrames
<1> QED BY <1>0, <1>1, <1>2, <1>3, <1>4, SamePage, SameStep

LEMMA ObserveStep ==
  ClientInv /\ request_observe_game => ClientInv' /\ page'.state = page.state
<1> SUFFICES ASSUME ClientInv, request_observe_game PROVE ClientInv' /\ page'.state = page.state
  OBVIOUS
<1> DEFINE n == IF CanSend THEN page.timeouts + 1 ELSE page.timeouts
<1>0. page \in Pages /\ PageInv(page) /\ sock \in [Sock -> Socks]
  BY ClientInvNow
<1>1. /\ page.waits > 0 /\ page.timeouts < MaxTimeouts /\ got' = got
      /\ page' = [page EXCEPT !.waits = page.waits - 1, !.timeouts = n]
      /\ sock' = [s \in Sock |->
                    IF Reaches(s) /\ Established(s)
                    THEN [sock[s] EXCEPT !.observed = TRUE] ELSE sock[s]]
  BY DEF request_observe_game
<1>2. page.waits - 1 \in 0..MaxTimers /\ n \in 0..MaxTimeouts
  BY <1>0, <1>1, PageBounds, Bounds
<1> HIDE DEF n
<1>3. page' \in Pages /\ page'.state = page.state /\ page'.rendering = page.rendering
  BY <1>0, <1>1, <1>2 DEF Pages
<1>4. SameConnection(page, page') /\ SameWorld(page, page') /\ SameFrames(page, page')
  BY <1>0, <1>1 DEF Pages, SameConnection, SameWorld, SameFrames
<1>5. \A s \in Sock : /\ sock'[s] \in Socks /\ sock'[s].ready = sock[s].ready
                      /\ sock'[s].mapSent = sock[s].mapSent
  BY <1>0, <1>1 DEF Socks
<1>6. sock' \in [Sock -> Socks]
  BY <1>1, <1>5
<1> QED BY <1>0, <1>1, <1>3, <1>4, <1>5, <1>6, SamePage, SameStep

LEMMA RulesetStep ==
  ASSUME ClientInv, NEW s \in Sock, RulesetControl(s)
  PROVE  ClientInv' /\ (page'.state = page.state \/ page'.state # "RUNNING")
<1>0. page \in Pages /\ PageInv(page) /\ sock \in [Sock -> Socks]
  BY ClientInvNow
<1>1. /\ sock' = sock /\ got' = got
      /\ page' = page \/ page' = update_client_state(page, "PREPARING")
  BY DEF RulesetControl, handle_ruleset_control
<1>2. /\ PageInv(page') /\ (page'.state = page.state \/ page'.state = "PREPARING")
      /\ page'.called = page.called /\ page'.ajax = page.ajax /\ page'.told = page.told
      /\ page'.ws = page.ws /\ page'.map = page.map /\ page'.tiles = page.tiles
      /\ page'.pending = page.pending
  <2>1. CASE page' = page
    BY <1>0, <2>1
  <2>2. CASE page' = update_client_state(page, "PREPARING")
    BY <1>0, <2>2, UpdateStatePage DEF States
  <2> QED BY <1>1, <2>1, <2>2
<1>3. page.ajax \in Nat
  BY <1>0, PageBounds, Bounds
<1> QED BY <1>0, <1>1, <1>2, <1>3, QuietStep

LEMMA GameInfoStep ==
  ASSUME ClientInv, NEW s \in Sock, GameInfo(s)
  PROVE  ClientInv' /\ (page'.state # page.state => page'.map)
<1>0. page \in Pages /\ PageInv(page) /\ sock \in [Sock -> Socks]
  BY ClientInvNow
<1>1. PICK turn \in BOOLEAN : page' = handle_game_info(page, turn)
  BY DEF GameInfo
<1>2. sock' = sock /\ got' = got /\ page.rendering < MaxTimers
  BY DEF GameInfo
<1>3. /\ PageInv(page') /\ (page'.state # page.state => page'.map)
      /\ page'.called = page.called /\ page'.ajax = page.ajax /\ page'.told = page.told
      /\ page'.ws = page.ws /\ page'.map = page.map /\ page'.tiles = page.tiles
      /\ page.pending \subseteq page'.tiles \cup page'.pending
  BY <1>0, <1>1, <1>2, GameInfoPage
<1>4. page.ajax \in Nat
  BY <1>0, PageBounds, Bounds
<1> QED BY <1>0, <1>2, <1>3, <1>4, QuietStep

\* The map is sent over one WebSocket, and is the page's from then on.
LEMMA MapInfoStep ==
  ASSUME ClientInv, NEW s \in Sock, MapInfo(s)
  PROVE  ClientInv' /\ page'.map
<1> DEFINE c == [sock[s] EXCEPT !.mapSent = TRUE]
<1>0. /\ page \in Pages /\ PageInv(page) /\ sock \in [Sock -> Socks] /\ Waits(page, sock)
      /\ MapsKnown(page, sock)
  BY ClientInvNow
<1>1. /\ sock[s].ready = "open" /\ page.mapFrames < MaxTimers /\ page.rendering < MaxTimers
      /\ page' = handle_map_info(page) /\ sock' = [sock EXCEPT ![s] = c] /\ got' = page.pending
  BY DEF MapInfo, Observed, Established
<1>2. /\ PageInv(page') /\ page'.map /\ page'.tiles = page.pending
      /\ page'.called = page.called /\ page'.ajax = page.ajax /\ page'.told = page.told
      /\ page'.ws = page.ws
  BY <1>0, <1>1, MapInfoPage
<1>3. c \in Socks /\ c.ready = "open"
  BY <1>0, <1>1 DEF Socks
<1> HIDE DEF c
<1>4. /\ sock' \in [Sock -> Socks] /\ sock'[s].ready = "open"
      /\ \A o \in Sock : o # s => sock'[o] = sock[o]
  BY <1>0, <1>1, <1>3
<1>5. Waits(page', sock')
  BY <1>4 DEF Waits
<1>6. MapsKnown(page', sock')
  BY <1>0, <1>2, <1>4 DEF MapsKnown
<1>7. TilesKept(page', got') /\ got' \subseteq Tile
  BY <1>0, <1>1, <1>2, PageBounds DEF TilesKept
<1> QED BY <1>2, <1>4, <1>5, <1>6, <1>7 DEF ClientInv

\* What is counted as received may be less than it was.
LEMMA FewerTilesStep ==
  ASSUME ClientInv, PageInv(page'), sock' = sock,
         page'.called = page.called, page'.ajax = page.ajax, page'.told = page.told,
         page'.ws = page.ws, page'.map = page.map,
         got' \subseteq Tile, got' \subseteq page'.tiles \cup page'.pending
  PROVE  ClientInv'
  BY DEF ClientInv, Waits, MapsKnown, TilesKept

LEMMA TileInfoStep ==
  ASSUME ClientInv, NEW s \in Sock, NEW t \in Tile, TileInfo(s, t)
  PROVE  ClientInv' /\ page'.state = page.state
<1>0. /\ page \in Pages /\ PageInv(page) /\ sock \in [Sock -> Socks] /\ TilesKept(page, got)
      /\ got \subseteq Tile
  BY ClientInvNow
<1>1. /\ page' = handle_tile_info(page, t) /\ sock' = sock
      /\ got' = IF Overflows(page) THEN {} ELSE got \cup {t}
  BY DEF TileInfo
<1>2. /\ PageInv(page') /\ page'.state = page.state
      /\ page'.called = page.called /\ page'.ajax = page.ajax /\ page'.told = page.told
      /\ page'.ws = page.ws /\ page'.map = page.map
      /\ ~Overflows(page) =>
           page.tiles \cup page.pending \cup {t} \subseteq page'.tiles \cup page'.pending
  BY <1>0, <1>1, TilePage
<1>3. got' \subseteq Tile /\ got' \subseteq page'.tiles \cup page'.pending
  BY <1>0, <1>1, <1>2 DEF TilesKept
<1> QED BY <1>1, <1>2, <1>3, FewerTilesStep

LEMMA StartPhaseStep ==
  ASSUME ClientInv, NEW s \in Sock, handle_start_phase(s)
  PROVE  ClientInv' /\ sock[s].ready = "open" /\ sock[s].mapSent /\ page'.map = page.map
<1>0. /\ page \in Pages /\ PageInv(page) /\ sock \in [Sock -> Socks] /\ TilesKept(page, got)
      /\ got \subseteq Tile
  BY ClientInvNow
<1>1. /\ sock[s].ready = "open" /\ sock[s].mapSent /\ page.rendering < MaxTimers
      /\ page' = update_client_state(page, "RUNNING") /\ sock' = sock
      /\ got' = IF page.tilesInit THEN got ELSE {}
  BY DEF handle_start_phase, Observed, Established
<1>2. /\ PageInv(page')
      /\ page'.called = page.called /\ page'.ajax = page.ajax /\ page'.told = page.told
      /\ page'.ws = page.ws /\ page'.map = page.map /\ page'.tiles = page.tiles
  BY <1>0, <1>1, UpdateStatePage DEF States
<1>3. got' \subseteq Tile /\ got' \subseteq page'.tiles \cup page'.pending
  BY <1>0, <1>1, <1>2 DEF TilesKept, PageInv
<1> QED BY <1>1, <1>2, <1>3, FewerTilesStep

LEMMA EndgameStep ==
  ASSUME ClientInv, NEW s \in Sock, handle_endgame_report(s)
  PROVE  ClientInv' /\ page'.state # "RUNNING"
<1>0. page \in Pages /\ PageInv(page) /\ sock \in [Sock -> Socks]
  BY ClientInvNow
<1>1. sock' = sock /\ got' = got /\ page' = update_client_state(page, "OVER")
  BY DEF handle_endgame_report
<1>2. /\ PageInv(page') /\ page'.state = "OVER"
      /\ page'.called = page.called /\ page'.ajax = page.ajax /\ page'.told = page.told
      /\ page'.ws = page.ws /\ page'.map = page.map /\ page'.tiles = page.tiles
      /\ page'.pending = page.pending
  BY <1>0, <1>1, UpdateStatePage DEF States
<1>3. page.ajax \in Nat
  BY <1>0, PageBounds, Bounds
<1> QED BY <1>0, <1>1, <1>2, <1>3, QuietStep

-----------------------------------------------------------------------------
(***************************************************************************)
(* The renderer                                                            *)
(***************************************************************************)

\* A callback of the renderer, after which terrain_ready was told or another
\* will tell it.
LEMMA FrameStep ==
  ASSUME ClientInv, page' \in Pages, sock' = sock, got' = got,
         SameConnection(page, page'), SameWorld(page, page'), page'.state = page.state,
         page'.rendered \/ (page'.rendered = page.rendered /\ page'.rendering = page.rendering),
         \/ page'.frames > 0
         \/ page.populated /\ page.map => page'.terrainReady
  PROVE  ClientInv'
<1>1. PageInv(page') /\ sock \in [Sock -> Socks]
  BY ClientInvNow DEF PageInv, SameConnection, SameWorld
<1> QED BY <1>1, SameStep

LEMMA FadeInStep == ClientInv /\ FadeIn => ClientInv' /\ page'.state = page.state
<1> SUFFICES ASSUME ClientInv, FadeIn PROVE ClientInv' /\ page'.state = page.state
  OBVIOUS
<1>0. page \in Pages
  BY ClientInvNow
<1>1. /\ page.rendering > 0 /\ page.frames < MaxTimers /\ sock' = sock /\ got' = got
      /\ page' = [page EXCEPT !.rendering = @ - 1, !.rendered = TRUE, !.frames = @ + 1]
  BY DEF FadeIn
<1>2. /\ page.rendering - 1 \in 0..MaxTimers /\ page.frames + 1 \in 0..MaxTimers
      /\ page.frames + 1 > 0
  BY <1>0, <1>1, PageBounds, Bounds
<1>3. page' \in Pages /\ page'.state = page.state /\ page'.rendered /\ page'.frames > 0
  BY <1>0, <1>1, <1>2 DEF Pages
<1>4. SameConnection(page, page') /\ SameWorld(page, page')
  BY <1>0, <1>1 DEF Pages, SameConnection, SameWorld
<1> QED BY <1>1, <1>3, <1>4, FrameStep

LEMMA RendererFrameStep == ClientInv /\ RendererFrame => ClientInv' /\ page'.state = page.state
<1> SUFFICES ASSUME ClientInv, RendererFrame PROVE ClientInv' /\ page'.state = page.state
  OBVIOUS
<1> DEFINE ready == page.terrainReady \/ (page.populated /\ page.map)
<1>0. page \in Pages
  BY ClientInvNow
<1>1. /\ page.frames > 0 /\ sock' = sock /\ got' = got
      /\ page' = [page EXCEPT !.frames = page.frames - 1, !.terrainReady = ready]
  BY DEF RendererFrame
<1>2. page.frames - 1 \in 0..MaxTimers /\ ready \in BOOLEAN
  BY <1>0, <1>1, PageBounds, Bounds
<1>3. /\ page' \in Pages /\ page'.state = page.state /\ page'.rendered = page.rendered
      /\ page'.rendering = page.rendering
  <2> HIDE DEF ready
  <2> QED BY <1>0, <1>1, <1>2 DEF Pages
<1>4. SameConnection(page, page') /\ SameWorld(page, page')
  <2> HIDE DEF ready
  <2> QED BY <1>0, <1>1 DEF Pages, SameConnection, SameWorld
<1>5. page'.terrainReady = ready
  <2> HIDE DEF ready
  <2> QED BY <1>0, <1>1 DEF Pages
<1>6. page.populated /\ page.map => page'.terrainReady
  <2>1. ASSUME page.populated, page.map PROVE page'.terrainReady = TRUE
    BY <1>5, <2>1, Zenon
  <2> QED BY <2>1
<1> QED BY <1>1, <1>3, <1>4, <1>6, FrameStep

LEMMA MapFrameStep == ClientInv /\ MapFrame => ClientInv' /\ page'.state = page.state
<1> SUFFICES ASSUME ClientInv, MapFrame PROVE ClientInv' /\ page'.state = page.state
  OBVIOUS
<1>0. page \in Pages
  BY ClientInvNow
<1>1. /\ page.mapFrames > 0 /\ sock' = sock /\ got' = got
      /\ page' = [page EXCEPT !.mapFrames = @ - 1, !.terrainReady = TRUE]
  BY DEF MapFrame
<1>2. page.mapFrames - 1 \in 0..MaxTimers
  BY <1>0, <1>1, PageBounds, Bounds
<1>3. /\ page' \in Pages /\ page'.state = page.state /\ page'.rendered = page.rendered
      /\ page'.rendering = page.rendering /\ page'.terrainReady
  BY <1>0, <1>1, <1>2 DEF Pages
<1>4. SameConnection(page, page') /\ SameWorld(page, page')
  BY <1>0, <1>1 DEF Pages, SameConnection, SameWorld
<1> QED BY <1>1, <1>3, <1>4, FrameStep

-----------------------------------------------------------------------------
(***************************************************************************)
(* Theorems                                                                *)
(***************************************************************************)

\* A callback keeps the invariant; it starts the game only with a map, or
\* because a WebSocket that is open was sent one.
LEMMA ClientNextInv ==
  ASSUME ClientInv, Next
  PROVE  /\ ClientInv'
         /\ Starts => page'.map \/ (/\ page'.map = page.map
                                     /\ \E s \in Sock : sock[s].ready = "open" /\ sock[s].mapSent)
<1>1. CASE Launcher
  <2>1. page'.state = page.state
    <3>1. page \in Pages
      BY ClientInvNow
    <3> QED BY <1>1, <3>1 DEF Launcher, websocket_init, LaunchFails, Pages
  <2> QED BY <1>1, <2>1, websocket_initStep, LaunchFailsStep DEF Launcher, Starts
<1>2. CASE PageTimers
  BY <1>2, PollReadyStep, RetryTimerStep, TimeoutStep, ObserveStep, FadeInStep,
     RendererFrameStep, MapFrameStep DEF PageTimers, Starts
<1>3. ASSUME NEW s \in Sock, onopen(s) \/ onclose(s) PROVE ClientInv' /\ ~Starts
  BY <1>3, onopenStep, oncloseStep DEF Starts
<1>4. ASSUME NEW s \in Sock, Packets(s)
      PROVE  /\ ClientInv'
             /\ Starts => page'.map \/ (/\ page'.map = page.map
                                         /\ sock[s].ready = "open" /\ sock[s].mapSent)
  BY <1>4, JoinReplyStep, ChatStep, RulesetStep, GameInfoStep, MapInfoStep, TileInfoStep,
     StartPhaseStep, EndgameStep DEF Packets, Starts
<1> QED BY <1>1, <1>2, <1>3, <1>4 DEF Next

LEMMA ClientStutter == ASSUME ClientInv, UNCHANGED vars PROVE ClientInv'
<1>1. UNCHANGED <<page, sock, got>>
  BY DEF vars
<1> QED BY <1>1 DEF ClientInv

\* The invariant holds of every page: whatever order the WebSockets, the
\* packets, the timers and the frames come in.
THEOREM ClientInvariant == Spec => []ClientInv
<1>1. ClientInv /\ [Next]_vars => ClientInv'
  BY ClientNextInv, ClientStutter
<1> QED BY <1>1, ClientInitInv, PTL DEF Spec

\* The guard network_init_called, its reset and the two ways to retry
\* (clinet.js and civclient.js) work together: a promised retry has its timer,
\* and a page without a game waits for something or has told that it failed.
\* This does not depend on the number of WebSockets, retries and timers.
THEOREM RetriesAreSound == Spec => []RetriesSound
<1>1. ClientInv => RetriesSound
  BY ClientInvImplies
<1> QED BY <1>1, ClientInvariant, PTL

\* handle_tile_info, replay_pending_tile_packets and update_client_state lose
\* no tile of the map but those they say they drop, and terrain_ready is told
\* or will be.
THEOREM NothingIsMissed == Spec => []NothingMissed
<1>1. ClientInv => NothingMissed
  BY ClientInvImplies
<1> QED BY <1>1, ClientInvariant, PTL

\* A start without a map comes over a WebSocket that was sent one before the
\* page forgot it: not over `ws`.
LEMMA StartsWithTilesStep ==
  ASSUME ClientInv, [Next]_vars, Starts, ~Stray
  PROVE  page'.map /\ page'.tilesInit
<1>1. Next
  BY DEF Starts, vars
<1>2. ClientInv' /\ MapsKnown(page, sock)
  BY <1>1, ClientNextInv, ClientInvNow
<1>3. page'.map
  <2>1. CASE /\ page'.map = page.map
             /\ \E s \in Sock : sock[s].ready = "open" /\ sock[s].mapSent
    <3>1. PICK s \in Sock : sock[s].ready = "open" /\ sock[s].mapSent
      BY <2>1
    <3>2. s = page.ws
      BY <3>1 DEF Stray
    <3> QED BY <1>2, <2>1, <3>1, <3>2, Bounds DEF MapsKnown
  <2> QED BY <1>1, <2>1, ClientNextInv
<1> QED BY <1>2, <1>3 DEF ClientInv, PageInv

\* handle_game_info, handle_map_info and handle_start_phase start the game
\* only with the map of the present attempt, unless a WebSocket is open that
\* is not `ws`.
THEOREM StartsWithItsTiles == Spec => StartsWithTiles
<1>1. ClientInv /\ [Next]_vars
        => [Starts /\ ~Stray => page'.map /\ page'.tilesInit]_vars
  BY StartsWithTilesStep
<1> QED BY <1>1, ClientInvariant, PTL DEF Spec, StartsWithTiles

-----------------------------------------------------------------------------
(***************************************************************************)
(* EventAggregator: its types, that its data is honest, and that each of its *)
(* steps is a step of Batcher or leaves the batches alone.                 *)
(***************************************************************************)

\* Only the message log, which keeps all events, may be without a list.
Served == attached \/ policy = "all"

Kept == agg.data = CASE policy = "first" /\ since # <<>> -> <<since[1]>>
                     [] policy = "last" /\ since # <<>> -> <<since[Len(since)]>>
                     [] policy = "all" -> since
                     [] OTHER -> <<>>
Counted == agg.count = Len(since)
Timed == since # <<>> => agg.timer \/ strays > 0

AggInv == AggTypeOK /\ Served /\ Counted /\ Kept /\ Timed

LEMMA HonestParts == DataHonest <=> Counted /\ Kept /\ Timed
  BY DEF DataHonest, Counted, Kept, Timed

-----------------------------------------------------------------------------
(***************************************************************************)
(* Types                                                                   *)
(***************************************************************************)

LEMMA InitAggInv == Init_aggregator => AggInv
<1> SUFFICES ASSUME Init_aggregator PROVE AggInv
  OBVIOUS
<1>1. /\ policy \in Policies
      /\ attached \in BOOLEAN /\ (attached \/ policy = "all")
      /\ agg = [timer |-> FALSE, burst |-> FALSE, delays |-> 0, count |-> 0, data |-> <<>>]
      /\ strays = 0 /\ since = <<>> /\ handled = <<>>
  BY DEF Init_aggregator
<1>2. agg \in Aggregators
  BY <1>1, AggAssumption DEF Aggregators
<1>3. AggTypeOK
  BY <1>1, <1>2, AggAssumption DEF AggTypeOK
<1>4. Served /\ Counted /\ Kept /\ Timed
  BY <1>1 DEF Served, Counted, Kept, Timed
<1> QED BY <1>3, <1>4 DEF AggInv

\* Clearing keeps the timer and forgets the rest.
LEMMA ClearType == ASSUME NEW a \in Aggregators
                   PROVE  /\ clear(a) \in Aggregators
                          /\ clear(a).count = 0 /\ clear(a).data = <<>>
                          /\ clear(a).timer = a.timer
<1>1. 0 \in 0..MaxDelays /\ <<>> \in Seq(Event)
  BY AggAssumption
<1> QED BY <1>1 DEF clear, Aggregators

\* The call of the handler keeps everything the invariant says, wherever it
\* is made from: when the handler cannot do its work, the aggregator holds
\* the same events again, and a timer runs.
LEMMA CallKeeps ==
  ASSUME AggInv, agg.count > 0, UNCHANGED <<policy, attached>>,
         NEW lost \in 0..MaxStrays, attached \/ lost < MaxStrays, CallHandler(lost)
  PROVE  AggInv'
<1>1. CASE attached
  <2>1. since' = <<>> /\ handled' = handled \o since /\ strays' = lost
    BY <1>1 DEF CallHandler
  <2>2. agg' = [clear(agg) EXCEPT !.timer = Latency]
    BY <1>1 DEF CallHandler
  <2>3. agg' \in Aggregators /\ agg'.count = 0 /\ agg'.data = <<>>
    BY <2>2, ClearType, AggAssumption DEF AggInv, AggTypeOK, Aggregators
  <2>4. AggTypeOK'
    BY <2>1, <2>3 DEF AggInv, AggTypeOK
  <2>5. Served' /\ Counted' /\ Kept' /\ Timed'
    BY <1>1, <2>1, <2>3 DEF Served, Counted, Kept, Timed
  <2> QED BY <2>4, <2>5 DEF AggInv
<1>2. CASE ~attached
  <2>1. policy = "all" /\ agg.data = since
    BY <1>2 DEF AggInv, Served, Kept
  <2>2. agg' = Requeued(since) /\ since' = since /\ handled' = handled
    BY <1>2, <2>1 DEF CallHandler
  <2>3. strays' \in 0..MaxStrays
    BY <1>2, AggAssumption DEF CallHandler
  <2>4. /\ agg' \in Aggregators
        /\ agg'.timer /\ agg'.count = Len(since) /\ agg'.data = since
    BY <2>2, AggAssumption DEF Requeued, Aggregators, AggInv, AggTypeOK
  <2>5. AggTypeOK'
    BY <2>2, <2>3, <2>4 DEF AggInv, AggTypeOK
  <2>6. Served' /\ Counted' /\ Kept' /\ Timed'
    BY <2>1, <2>2, <2>4 DEF Served, Counted, Kept, Timed
  <2> QED BY <2>5, <2>6 DEF AggInv
<1> QED BY <1>1, <1>2

-----------------------------------------------------------------------------
(***************************************************************************)
(* Steps                                                                   *)
(***************************************************************************)

LEMMA UpdateKeeps == ASSUME AggInv, Update PROVE AggInv'
<1>1. PICK e \in Event : agg' = update(agg, e) /\ since' = Append(since, e)
  BY DEF Update
<1>2. UNCHANGED <<policy, strays, attached, handled>>
  BY DEF Update
<1>3. agg \in Aggregators /\ since \in Seq(Event) /\ Counted /\ Kept /\ policy \in Policies
  BY DEF AggInv, AggTypeOK
<1>4. since' \in Seq(Event) /\ Len(since') = Len(since) + 1 /\ since' # <<>>
  BY <1>1, <1>3
<1>5. since'[Len(since')] = e /\ (since = <<>> => since'[1] = e)
      /\ (since # <<>> => since'[1] = since[1])
  BY <1>1, <1>3
<1>6. Keeps(agg, e) \in Seq(Event)
  BY <1>3 DEF Keeps, Aggregators
<1>7. /\ agg' \in Aggregators /\ agg'.timer
      /\ agg'.count = agg.count + 1 /\ agg'.data = Keeps(agg, e)
  <2>1. agg' = [agg EXCEPT !.data = Keeps(agg, e), !.count = @ + 1, !.timer = TRUE,
                           !.burst = @ \/ (agg.timer /\ agg.count > 0)]
    BY <1>1 DEF update
  <2>2. (agg.burst \/ (agg.timer /\ agg.count > 0)) \in BOOLEAN /\ agg.count + 1 \in Nat
    BY <1>3 DEF Aggregators
  <2> HIDE DEF Keeps
  <2> QED BY <1>3, <1>6, <2>1, <2>2 DEF Aggregators
<1>8. AggTypeOK'
  BY <1>2, <1>4, <1>7 DEF AggInv, AggTypeOK
<1>9. Served' /\ Counted' /\ Timed'
  BY <1>2, <1>3, <1>4, <1>7 DEF AggInv, Served, Counted, Timed
<1>10. agg.count = 0 <=> since = <<>>
  BY <1>3 DEF Counted
<1>11. Kept'
  <2>1. CASE policy = "first"
    <3>1. agg'.data = IF since = <<>> THEN <<e>> ELSE agg.data
      BY <1>7, <1>10, <2>1 DEF Keeps
    <3>2. since # <<>> => agg.data = <<since[1]>>
      BY <1>3, <2>1 DEF Kept
    <3>3. agg'.data = <<since'[1]>>
      BY <3>1, <3>2, <1>5
    <3> QED BY <3>3, <1>2, <1>4, <2>1 DEF Kept
  <2>2. CASE policy = "last"
    BY <1>2, <1>4, <1>5, <1>7, <2>2 DEF Kept, Keeps
  <2>3. CASE policy = "all"
    BY <1>1, <1>2, <1>3, <1>7, <2>3 DEF Kept, Keeps
  <2>4. CASE policy \in {"none", "count"}
    BY <1>2, <1>3, <1>7, <2>4 DEF Kept, Keeps
  <2> QED BY <1>3, <2>1, <2>2, <2>3, <2>4 DEF Policies
<1> QED BY <1>8, <1>9, <1>11 DEF AggInv

\* A timer that ends: delay once more, call, or rest.
LEMMA FiredKeeps == ASSUME AggInv, NEW lost \in Nat, Fired(lost) PROVE AggInv'
<1>0. lost \in 0..MaxStrays /\ UNCHANGED <<policy, attached>>
  BY AggAssumption DEF Fired
<1>1. CASE agg.burst /\ agg.delays < MaxDelays
  <2>1. /\ agg' = [agg EXCEPT !.burst = FALSE, !.delays = @ + 1, !.timer = TRUE]
        /\ strays' = lost /\ UNCHANGED <<since, handled>>
    BY <1>1 DEF Fired
  <2>2. /\ agg' \in Aggregators /\ agg'.timer
        /\ agg'.count = agg.count /\ agg'.data = agg.data
    <3>1. agg \in Aggregators
      BY DEF AggInv, AggTypeOK
    <3>2. agg.delays + 1 \in 0..MaxDelays
      BY <1>1, <3>1, AggAssumption DEF Aggregators
    <3> QED BY <2>1, <3>1, <3>2 DEF Aggregators
  <2>3. AggTypeOK'
    BY <1>0, <2>1, <2>2 DEF AggInv, AggTypeOK
  <2>4. Served' /\ Counted' /\ Kept' /\ Timed'
    BY <1>0, <2>1, <2>2 DEF AggInv, Served, Counted, Kept, Timed
  <2> QED BY <2>3, <2>4 DEF AggInv
<1>2. CASE ~(agg.burst /\ agg.delays < MaxDelays) /\ agg.count > 0
  BY <1>0, <1>2, CallKeeps DEF Fired
<1>3. CASE ~(agg.burst /\ agg.delays < MaxDelays) /\ ~(agg.count > 0)
  <2>1. /\ agg' = [agg EXCEPT !.timer = FALSE]
        /\ strays' = lost /\ UNCHANGED <<since, handled>>
    BY <1>3 DEF Fired
  <2>2. agg' \in Aggregators /\ agg'.count = agg.count /\ agg'.data = agg.data
    BY <2>1 DEF AggInv, AggTypeOK, Aggregators
  <2>3. agg.count = Len(since) /\ Len(since) \in Nat /\ since \in Seq(Event)
    BY DEF AggInv, AggTypeOK, Counted
  <2>4. since = <<>>
    BY <1>3, <2>3
  <2>5. AggTypeOK'
    BY <1>0, <2>1, <2>2 DEF AggInv, AggTypeOK
  <2>6. Served' /\ Counted' /\ Kept' /\ Timed'
    BY <1>0, <2>1, <2>2, <2>4 DEF AggInv, Served, Counted, Kept, Timed
  <2> QED BY <2>5, <2>6 DEF AggInv
<1> QED BY <1>1, <1>2, <1>3

LEMMA AggNextInv == AggInv /\ [Next_aggregator]_aggVars => AggInv'
<1> SUFFICES ASSUME AggInv, [Next_aggregator]_aggVars PROVE AggInv'
  OBVIOUS
<1>0. strays \in 0..MaxStrays
  BY DEF AggInv, AggTypeOK
<1>1. CASE Update
  BY <1>1, UpdateKeeps
<1>2. CASE fireNow
  BY <1>0, <1>2, CallKeeps DEF fireNow
<1>3. CASE fired
  BY <1>0, <1>3, FiredKeeps, AggAssumption DEF fired
<1>4. CASE StrayFired
  <2>1. (IF agg.timer THEN strays ELSE strays - 1) \in Nat
    BY <1>0, <1>4, AggAssumption DEF StrayFired
  <2> QED BY <1>4, <2>1, FiredKeeps DEF StrayFired
<1>5. CASE Clear
  <2>1. /\ agg' = clear(agg) /\ since' = <<>>
        /\ UNCHANGED <<policy, strays, attached, handled>>
    BY <1>5 DEF Clear
  <2>2. agg' \in Aggregators /\ agg'.count = 0 /\ agg'.data = <<>>
    BY <2>1, ClearType DEF AggInv, AggTypeOK
  <2>3. AggTypeOK'
    BY <2>1, <2>2 DEF AggInv, AggTypeOK
  <2>4. Served' /\ Counted' /\ Kept' /\ Timed'
    BY <2>1, <2>2 DEF AggInv, Served, Counted, Kept, Timed
  <2> QED BY <2>3, <2>4 DEF AggInv
<1>6. CASE Attach
  BY <1>6 DEF Attach, AggInv, AggTypeOK, Served, Counted, Kept, Timed
<1>7. CASE UNCHANGED aggVars
  BY <1>7 DEF aggVars, AggInv, AggTypeOK, Served, Counted, Kept, Timed
<1> QED BY <1>1, <1>2, <1>3, <1>4, <1>5, <1>6, <1>7 DEF Next_aggregator

\* The types, and that only the message log is ever without a list.
THEOREM AggTypeCorrect == AggSpec => [](AggTypeOK /\ Served)
<1>1. AggInv => AggTypeOK /\ Served
  BY DEF AggInv
<1> QED BY <1>1, InitAggInv, AggNextInv, PTL DEF AggSpec

\* What update(), fired() and fireNow() keep stands for exactly the events
\* since the last call of the handler, and a timer runs while one waits.
THEOREM AggDataHonest == AggSpec => []DataHonest
<1>1. AggInv => DataHonest
  BY HonestParts DEF AggInv
<1> QED BY <1>1, InitAggInv, AggNextInv, PTL DEF AggSpec

-----------------------------------------------------------------------------
(***************************************************************************)
(* Refinement                                                              *)
(***************************************************************************)

\* A call of the handler hands over what waits, or nothing.
LEMMA CallMaps ==
  ASSUME AggInv, agg.count > 0, attached' = attached, NEW lost, CallHandler(lost)
  PROVE  Promise!HandOver \/ UNCHANGED Promise!vars
<1>1. CASE attached
  <2>1. since # <<>>
    BY DEF AggInv, Counted
  <2> QED BY <1>1, <2>1 DEF CallHandler, Promise!HandOver
<1>2. CASE ~attached
  BY <1>2 DEF CallHandler, Promise!vars
<1> QED BY <1>1, <1>2

LEMMA FiredMaps == ASSUME AggInv, NEW lost, Fired(lost)
                   PROVE  Promise!HandOver \/ UNCHANGED Promise!vars
<1>0. attached' = attached
  BY DEF Fired
<1>1. CASE ~(agg.burst /\ agg.delays < MaxDelays) /\ agg.count > 0
  BY <1>0, <1>1, CallMaps DEF Fired
<1>2. CASE (agg.burst /\ agg.delays < MaxDelays) \/ ~(agg.count > 0)
  BY <1>0, <1>2 DEF Fired, Promise!vars
<1> QED BY <1>1, <1>2

\* Every step of the aggregator is a step of what it promises, or none.
LEMMA StepMaps == AggInv /\ [Next_aggregator]_aggVars => [Promise!Next]_(Promise!vars)
<1> SUFFICES ASSUME AggInv, [Next_aggregator]_aggVars PROVE [Promise!Next]_(Promise!vars)
  OBVIOUS
<1>1. CASE Update
  BY <1>1 DEF Update, Promise!Next, Promise!Report
<1>2. CASE fireNow
  BY <1>2, CallMaps DEF fireNow, Promise!Next
<1>3. CASE fired
  BY <1>3, FiredMaps DEF fired, Promise!Next
<1>4. CASE StrayFired
  BY <1>4, FiredMaps DEF StrayFired, Promise!Next
<1>5. CASE Clear
  BY <1>5 DEF Clear, Promise!Next, Promise!Discard
<1>6. CASE Attach
  BY <1>6 DEF Attach, Promise!Next, Promise!Turn, AggInv, AggTypeOK
<1>7. CASE UNCHANGED aggVars
  BY <1>7 DEF aggVars, Promise!vars
<1> QED BY <1>1, <1>2, <1>3, <1>4, <1>5, <1>6, <1>7 DEF Next_aggregator

\* The aggregator implements Batcher: whatever its policy and its timers,
\* every event is handed over at most once, in the order of the reports, and
\* only while the handler can take it.
THEOREM AggBatches == AggSpec => Promise!Spec
<1>1. Init_aggregator => Promise!Init
  BY DEF Init_aggregator, Promise!Init
<1> QED BY <1>1, InitAggInv, AggNextInv, StepMaps, PTL DEF AggSpec, Promise!Spec

-----------------------------------------------------------------------------
(***************************************************************************)
(* The parts that live on timers                                           *)
(***************************************************************************)

LEMMA PartMoves ==
  ASSUME [Next_timed]_timedVars
  PROVE  [Next_follow]_followVars /\ [Next_aggregator]_aggVars /\ [Next_stream]_streamVars
<1>1. CASE UNCHANGED <<part, followVars, aggVars, streamVars>>
  BY <1>1
<1>2. CASE Next_follow /\ UNCHANGED <<part, handshakeVars, aggVars, streamVars>>
  BY <1>2
<1>3. CASE Next_aggregator /\ UNCHANGED <<part, handshakeVars, followVars, streamVars>>
  BY <1>3
<1>4. CASE Next_stream /\ UNCHANGED <<part, handshakeVars, followVars, aggVars>>
  BY <1>4
<1>5. CASE UNCHANGED timedVars
  BY <1>5 DEF timedVars
<1> QED BY <1>1, <1>2, <1>3, <1>4, <1>5 DEF Next_timed

\* Whatever the timers do, the variables of the page's camera, of an aggregator
\* and of the container keep their types, the bounded counts of attempts,
\* retries and delays among them.
THEOREM TimersTypes == TimedSpec => []TimersTypeOK
<1> DEFINE Inv == FollowInv /\ AggInv /\ StreamInv
<1>1. Init_timed => Inv
  BY InitFollowInv, InitAggInv, InitStreamInv DEF Init_timed
<1>2. Inv /\ [Next_timed]_timedVars => Inv'
  <2> SUFFICES ASSUME Inv, [Next_timed]_timedVars PROVE Inv'
    OBVIOUS
  <2>1. [Next_follow]_followVars /\ [Next_aggregator]_aggVars /\ [Next_stream]_streamVars
    BY PartMoves
  <2>2. FollowInv'
    BY <2>1, FollowNextInv
  <2>3. AggInv'
    BY <2>1, AggNextInv
  <2>4. StreamInv'
    BY <2>1, StreamNextInv
  <2> QED BY <2>2, <2>3, <2>4
<1>3. Inv => TimersTypeOK
  BY FollowInvImplies DEF StreamInv, AggInv, TimersTypeOK
<1> QED BY <1>1, <1>2, <1>3, PTL DEF TimedSpec
=============================================================================
