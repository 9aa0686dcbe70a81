---------------------------- MODULE StreamCapture ----------------------------
(***************************************************************************)
(* The streaming container (streaming/stream.js): one run() launches a     *)
(* browser on an observer's page, has FFmpeg record and stream its         *)
(* display, waits for a signal and shuts down in order: FFmpeg, so that    *)
(* the recording is complete, the upload of the recording, the browser.    *)
(* Each of the three can fail, hang or end by itself at any time; the      *)
(* container can be killed, and is started again on the same volume.       *)
(***************************************************************************)
EXTENDS Integers

CONSTANTS MaxTries,    \* config.maxRetries
          Bucket,      \* whether GCS_BACKUP_BUCKET is set
          MaxSignals,  \* signals sent to the container (a bound)
          MaxRestarts  \* backoff_limit of the job

ASSUME StreamAssumption == /\ MaxTries \in Nat \ {0} /\ Bucket \in BOOLEAN
                           /\ MaxSignals \in Nat /\ MaxRestarts \in Nat

VARIABLES capture,   \* where run() is, and what it and the event loop hold
          browser,   \* the browser: none, open or closed
          ffmpeg,    \* the process FFmpeg
          backup,    \* the recording on the volume
          upload,    \* bucket.upload
          signals, restarts

streamVars == <<capture, browser, ffmpeg, backup, upload, signals, restarts>>

Steps == {"launch", "navigate", "start", "streaming", "stopping", "upload", "closing",
          "lingering", "ended", "dead"}

Captures ==
  [step : Steps, try : 1..MaxTries, sleeping : BOOLEAN, failed : BOOLEAN,
   told : BOOLEAN,       \* a signal resolved the promise of run()
   listening : BOOLEAN,  \* process.on was called by run()
   killTimer : BOOLEAN, uploadTimer : BOOLEAN]

\* "mute" was never spawned: it neither exits nor writes.
Processes == {"none", "mute", "recording", "asked", "done", "broken", "killed"}

StreamTypeOK == /\ capture \in Captures
                /\ browser \in {"none", "open", "closed"} /\ ffmpeg \in Processes
                /\ backup \in {"none", "partial", "complete"}
                /\ upload \in {"none", "active", "done", "failed"}
                /\ signals \in 0..MaxSignals /\ restarts \in 0..MaxRestarts

Fresh == [step |-> "launch", try |-> 1, sleeping |-> FALSE, failed |-> FALSE,
          told |-> FALSE, listening |-> FALSE, killTimer |-> FALSE, uploadTimer |-> FALSE]

Init_stream == /\ capture = Fresh /\ browser = "none" /\ ffmpeg = "none"
               /\ backup = "none" /\ upload = "none" /\ signals = 0 /\ restarts = 0

Writing == ffmpeg \in {"recording", "asked"}
Over == capture.step \in {"ended", "dead"}

-----------------------------------------------------------------------------
(***************************************************************************)
(* shutdown()                                                              *)
(***************************************************************************)
\* An upload that timed out goes on, and nobody clears the timer of one that
\* did not: either keeps the process alive.
Ends(c) == IF c.failed THEN [c EXCEPT !.step = "ended", !.uploadTimer = FALSE]
           ELSE [c EXCEPT !.step = "lingering"]

\* uploadBackupToGCS: without a bucket or a recording there is nothing to do.
uploadBackupToGCS(c) ==
  IF Bucket /\ backup' # "none"
  THEN /\ capture' = [c EXCEPT !.step = "upload", !.uploadTimer = TRUE]
       /\ upload' = "active"
  ELSE capture' = [c EXCEPT !.step = "closing"] /\ UNCHANGED upload

\* Mutant: SIGTERM is sent and nobody waits for the process to end.
ShutdownAtOnce(c) ==
  /\ ffmpeg' = IF ffmpeg = "recording" THEN "asked" ELSE ffmpeg
  /\ UNCHANGED backup /\ uploadBackupToGCS(c)

\* Mutant: the wait for the process has no timeout.
ShutdownPatiently(c) ==
  IF ffmpeg = "none" THEN UNCHANGED <<ffmpeg, backup>> /\ uploadBackupToGCS(c)
  ELSE /\ ffmpeg' = IF ffmpeg = "recording" THEN "asked" ELSE ffmpeg
       /\ capture' = [c EXCEPT !.step = "stopping"]
       /\ UNCHANGED <<backup, upload>>

\* FFmpeg is told to end and waited for; a process that has ended before will
\* not end again, and only the timeout goes on from there.
shutdown(c) ==
  IF ffmpeg = "none" THEN UNCHANGED <<ffmpeg, backup>> /\ uploadBackupToGCS(c)
  ELSE /\ ffmpeg' = IF ffmpeg = "recording" THEN "asked" ELSE ffmpeg
       /\ capture' = [c EXCEPT !.step = "stopping", !.killTimer = TRUE]
       /\ UNCHANGED <<backup, upload>>

KillTimeout ==
  /\ capture.step = "stopping" /\ capture.killTimer
  /\ ffmpeg' = IF ffmpeg = "asked" THEN "killed" ELSE ffmpeg
  /\ UNCHANGED <<browser, backup, signals, restarts>>
  /\ uploadBackupToGCS([capture EXCEPT !.killTimer = FALSE])

\* The upload is over for shutdown() when it settles or times out.
UploadTimeout ==
  /\ capture.uploadTimer /\ ~Over
  /\ capture' = [capture EXCEPT !.uploadTimer = FALSE,
                                !.step = IF @ = "upload" THEN "closing" ELSE @]
  /\ UNCHANGED <<browser, ffmpeg, backup, upload, signals, restarts>>

UploadSettles ==
  /\ upload = "active" /\ ~Over /\ upload' \in {"done", "failed"}
  /\ capture' = [capture EXCEPT !.step = IF @ = "upload" THEN "closing" ELSE @]
  /\ UNCHANGED <<browser, ffmpeg, backup, signals, restarts>>

CloseBrowser ==
  /\ capture.step = "closing"
  /\ browser' = IF browser = "open" THEN "closed" ELSE browser
  /\ capture' = Ends(capture)
  /\ UNCHANGED <<ffmpeg, backup, upload, signals, restarts>>

\* The event loop is empty.
Exit == /\ capture.step = "lingering" /\ ~capture.uploadTimer /\ upload # "active"
        /\ capture' = [capture EXCEPT !.step = "ended"]
        /\ UNCHANGED <<browser, ffmpeg, backup, upload, signals, restarts>>

-----------------------------------------------------------------------------
(***************************************************************************)
(* run()                                                                   *)
(***************************************************************************)
Fails == shutdown([capture EXCEPT !.failed = TRUE])

\* Without a browser, or with one that gives no page.
launchBrowser ==
  /\ capture.step = "launch"
  /\ \/ /\ browser' = "open" /\ capture' = [capture EXCEPT !.step = "navigate"]
        /\ UNCHANGED <<ffmpeg, backup, upload>>
     \/ browser' \in {"none", "open"} /\ Fails
  /\ UNCHANGED <<signals, restarts>>

\* An attempt throws: sleep and try again, or give up.
Retries == IF capture.try < MaxTries
           THEN /\ capture' = [capture EXCEPT !.sleeping = TRUE]
                /\ UNCHANGED <<ffmpeg, backup, upload>>
           ELSE Fails

Wakes == /\ capture.sleeping
         /\ capture' = [capture EXCEPT !.sleeping = FALSE, !.try = @ + 1]
         /\ UNCHANGED <<browser, ffmpeg, backup, upload, signals, restarts>>

Tries(step) == capture.step = step /\ ~capture.sleeping

\* The page is there, its canvas appears in time and has WebGL.
navigateToGame ==
  /\ Tries("navigate")
  /\ \/ /\ browser = "open" /\ capture' = [capture EXCEPT !.step = "start", !.try = 1]
        /\ UNCHANGED <<ffmpeg, backup, upload>>
     \/ Retries
  /\ UNCHANGED <<browser, signals, restarts>>

\* spawn() throws, or returns a process which may be none; the recording of an
\* earlier run is overwritten.  What follows, up to the handlers of signals, is
\* in the same turn of the event loop.
startFfmpeg ==
  /\ Tries("start")
  /\ \/ /\ ffmpeg' \in {"recording", "mute"}
        /\ backup' = IF ffmpeg' = "recording" THEN "partial" ELSE backup
        /\ capture' = [capture EXCEPT !.step = "streaming", !.listening = TRUE]
        /\ UNCHANGED upload
     \/ Retries
  /\ UNCHANGED <<browser, signals, restarts>>

\* finally, after a signal.
Stop == /\ capture.step = "streaming" /\ capture.told
        /\ shutdown(capture)
        /\ UNCHANGED <<browser, signals, restarts>>

-----------------------------------------------------------------------------
(***************************************************************************)
(* Around it                                                               *)
(***************************************************************************)
\* The process ends by itself, with or without the end of the file; only one
\* that was told to is waited for.
FfmpegExits ==
  /\ ~Over
  /\ \/ /\ ffmpeg = "recording" /\ ffmpeg' = "broken"
        /\ backup' \in {"partial", "complete"}
        /\ UNCHANGED <<capture, upload>>
     \/ /\ ffmpeg = "asked" /\ ffmpeg' = "done" /\ backup' = "complete"
        /\ uploadBackupToGCS([capture EXCEPT !.killTimer = FALSE])
  /\ UNCHANGED <<browser, signals, restarts>>

\* Nothing looks after the browser.
BrowserDies == /\ browser = "open" /\ ~Over /\ browser' = "closed"
               /\ UNCHANGED <<capture, ffmpeg, backup, upload, signals, restarts>>

\* SIGTERM from the entrypoint.  puppeteer closes its browser on it; run()
\* listens from the start of the stream on; with no listener, node dies.
Sigterm ==
  /\ signals < MaxSignals /\ signals' = signals + 1 /\ ~Over
  /\ browser' = IF browser = "open" THEN "closed" ELSE browser
  /\ capture' = IF capture.listening THEN [capture EXCEPT !.told = TRUE]
                ELSE IF browser = "open" THEN capture
                ELSE [capture EXCEPT !.step = "dead"]
  /\ UNCHANGED <<ffmpeg, backup, upload, restarts>>

\* The container is killed, after its grace period or for its memory, and all
\* of its processes with it.
Dies == /\ ~Over
        /\ capture' = [capture EXCEPT !.step = "dead"]
        /\ UNCHANGED <<browser, ffmpeg, backup, upload, signals, restarts>>

\* restart_policy "OnFailure": a new container on the same volume, unless the
\* entrypoint was told to stop, which ends with 0.
Restart == /\ signals = 0
           /\ capture.step = "dead" \/ (capture.step = "ended" /\ capture.failed)
           /\ restarts < MaxRestarts /\ restarts' = restarts + 1
           /\ capture' = Fresh /\ browser' = "none" /\ ffmpeg' = "none" /\ upload' = "none"
           /\ UNCHANGED <<backup, signals>>

Next_stream == \/ launchBrowser \/ navigateToGame \/ startFfmpeg \/ Wakes \/ Stop
               \/ KillTimeout \/ UploadTimeout \/ UploadSettles \/ CloseBrowser \/ Exit
               \/ FfmpegExits \/ BrowserDies \/ Sigterm \/ Dies \/ Restart

StreamSpec == Init_stream /\ [][Next_stream]_streamVars

\* Timers fire, what is awaited with a timeout ends (60 s and 90 s for the
\* page), a closed browser closes and a client library gives up; FFmpeg need
\* not end.
StreamFairness ==
  /\ WF_streamVars(launchBrowser) /\ WF_streamVars(navigateToGame)
  /\ WF_streamVars(startFfmpeg) /\ WF_streamVars(Wakes) /\ WF_streamVars(Stop)
  /\ WF_streamVars(KillTimeout) /\ WF_streamVars(UploadTimeout)
  /\ WF_streamVars(UploadSettles) /\ WF_streamVars(CloseBrowser) /\ WF_streamVars(Exit)

-----------------------------------------------------------------------------
(***************************************************************************)
(* Properties                                                              *)
(***************************************************************************)

\* What is uploaded is no longer written ("after FFmpeg finishes to ensure the
\* MP4 is complete", stream.js 543), whoever ended FFmpeg and in whatever
\* order signals, timeouts and the ends of the processes come; and a run that
\* ends, failed or not, leaves neither the browser nor FFmpeg behind.
CleanStop == /\ upload = "active" => ~Writing
             /\ capture.step = "ended" => browser # "open" /\ ~Writing

\* A run always gets as far as the stream, or to its end; and a stream that is
\* told to stop gets there, also when FFmpeg has ended before (the test
\* "handles FFmpeg crash gracefully" looks at a handler only) or hangs.
RunsEnd == []<>(Over \/ (capture.step = "streaming" /\ ~capture.told))
=============================================================================
