-------------------------------- MODULE SpUpload --------------------------------
(* Upload validation (sp_upload_validation.c): when the body of a request  *)
(* has been read, a process runs the configured program for each file, and *)
(* the request waits for what it says. The callback is one of a chain: any *)
(* extension may put its own in front.                                     *)
EXTENDS Integers, FiniteSets

CONSTANTS MaxFiles,   \* bound on the files of a request
          Codes,      \* what the program may exit with
          UploadConfigs

ASSUME FilesAndCodes == MaxFiles \in Nat \ {0} /\ Codes \subseteq Nat

NoValidation == [enable |-> FALSE, simulation |-> FALSE]
Files    == 1..MaxFiles

VARIABLES
  uploadcfg, \* the configuration in force
  before,    \* the callback that was there first, or "none"
  callback,  \* php_rfc1867_callback: "none", "first", "sp" or "other"
  next,      \* whom each of them calls: sp_rfc1867_orig_callback, for "sp"
  progress,  \* "idle", "files", "wait", "script", "dropped" or "crashed"
  files,     \* how many files the request has
  file,      \* the one that is validated
  child,     \* the process of each: "none", "forked", "runs", "killed", or its exit status
  passed     \* why each was let through: "no", "status", "simulation", "no fork", "no status"

upload_vars == <<uploadcfg, before, callback, next, progress, files, file, child, passed>>

UploadInit == /\ uploadcfg = NoValidation
              /\ before \in {"none", "first"} /\ callback = before
              /\ next = [c \in {"first", "sp", "other"} |-> "none"]
              /\ progress = "idle" /\ files = 0 /\ file = 0
              /\ child = [f \in Files |-> "none"] /\ passed = [f \in Files |-> "no"]

\* Slip: hooked again with every configuration.
HookAlways == next' = [next EXCEPT !["sp"] = callback] /\ callback' = "sp"
\* hook_upload
Hook == IF callback = "sp" \/ next["sp"] # "none" THEN UNCHANGED <<callback, next>>
        ELSE next' = [next EXCEPT !["sp"] = callback] /\ callback' = "sp"

LoadUpload(c) == /\ progress = "idle" /\ uploadcfg' = c
                 /\ IF c.enable THEN Hook ELSE UNCHANGED <<callback, next>>
                 /\ UNCHANGED <<before, progress, files, file, child, passed>>

\* Another extension puts its callback in front, once.
Other == /\ progress = "idle" /\ callback # "other" /\ next["other"] = "none" /\ callback # "none"
         /\ next' = [next EXCEPT !["other"] = callback] /\ callback' = "other"
         /\ UNCHANGED <<uploadcfg, before, progress, files, file, child, passed>>

\* The callbacks that are called, and whether that never ends.
Called == LET After(c) == IF c = "none" THEN "none" ELSE next[c]
          IN {callback, After(callback), After(After(callback))} \ {"none"}
Loops  == "none" \notin {next[c] : c \in Called} /\ Called # {}

-----------------------------------------------------------------------------
(* The request *)

BeginUpload(n) == /\ progress = "idle" /\ files' = n /\ file' = 1
                  /\ progress' = CASE Loops -> "crashed"
                                [] ~Loops /\ "sp" \in Called /\ uploadcfg.enable -> "files"
                                [] OTHER -> "script"
                  /\ UNCHANGED <<uploadcfg, before, callback, next, child, passed>>

\* The loop over the files goes on, or is over.
Pass(why) == /\ passed' = [passed EXCEPT ![file] = why] /\ file' = file + 1
             /\ progress' = IF file = files THEN "script" ELSE "files"

\* Slip: forks for all of the files, then waits for one after the other.
ForkAhead == /\ progress = "files" /\ progress' = "wait"
             /\ child' = [f \in Files |-> IF f \in file..files THEN "forked" ELSE child[f]]
             /\ UNCHANGED <<uploadcfg, before, callback, next, files, file, passed>>
Fork == /\ progress = "files" /\ progress' = "wait" /\ child' = [child EXCEPT ![file] = "forked"]
        /\ UNCHANGED <<uploadcfg, before, callback, next, files, file, passed>>
\* sp_log_err, whose message is an error that ends the request, unless it goes
\* to syslog or to a file.
NoFork == /\ progress = "files"
          /\ Pass("no fork") \/ (progress' = "dropped" /\ UNCHANGED <<passed, file>>)
          /\ UNCHANGED <<uploadcfg, before, callback, next, files, child>>

\* execve, which may fail: the child then exits with 1.
Exec(f) == /\ child[f] = "forked" /\ child' = [child EXCEPT ![f] = "runs"]
           /\ UNCHANGED <<uploadcfg, before, callback, next, progress, files, file, passed>>
NoExec(f) == /\ child[f] = "forked" /\ child' = [child EXCEPT ![f] = "1"]
             /\ UNCHANGED <<uploadcfg, before, callback, next, progress, files, file, passed>>

\* Of the code the program exits with, the system keeps 8 bits.
Status(code) == IF code % 256 = 0 THEN "0" ELSE "1"
Exit(f, code) == /\ child[f] = "runs" /\ child' = [child EXCEPT ![f] = Status(code)]
                 /\ UNCHANGED <<uploadcfg, before, callback, next, progress, files, file, passed>>
Killed(f) == /\ child[f] \in {"forked", "runs"} /\ child' = [child EXCEPT ![f] = "killed"]
             /\ UNCHANGED <<uploadcfg, before, callback, next, progress, files, file, passed>>

\* Slip: the low byte of the status is looked at, which has the signal.
RejectsSignal(status) == status = "killed"
\* WEXITSTATUS, which is 0 for a process that was killed.
Rejects(status) == status = "1"

\* sp_log_auto: the request is dropped, in simulation it goes on.
Judge(status, why) ==
  \/ ~Rejects(status) /\ Pass(why)
  \/ Rejects(status) /\ uploadcfg.simulation /\ Pass(IF why = "status" THEN "simulation" ELSE why)
  \/ Rejects(status) /\ ~uploadcfg.simulation /\ progress' = "dropped" /\ UNCHANGED <<passed, file>>

\* Slip: a process that was killed is waited for again.
EndedByItself(status) == status \in {"0", "1"}
Ended(status) == status \in {"0", "1", "killed"}

Wait == /\ progress = "wait" /\ Ended(child[file]) /\ Judge(child[file], "status")
        /\ UNCHANGED <<uploadcfg, before, callback, next, files, child>>
\* waitpid fails, and the status that is looked at was never written.
NoStatus == /\ progress = "wait" /\ \E junk \in {"0", "1"} : Judge(junk, "no status")
            /\ UNCHANGED <<uploadcfg, before, callback, next, files, child>>

\* A process that crashed is followed by one with the same callbacks.
EndUpload == /\ progress \in {"script", "dropped", "crashed"} /\ progress' = "idle" /\ files' = 0 /\ file' = 0
             /\ child' = [f \in Files |-> "none"] /\ passed' = [f \in Files |-> "no"]
             /\ UNCHANGED <<uploadcfg, before, callback, next>>

Parent   == Fork \/ NoFork \/ Wait \/ NoStatus
Child(f) == Exec(f) \/ NoExec(f) \/ Killed(f) \/ \E code \in Codes : Exit(f, code)
UploadNext == \/ \E c \in UploadConfigs : LoadUpload(c)
              \/ \E n \in Files : BeginUpload(n)
              \/ \E f \in Files : Child(f)
              \/ Other \/ Parent \/ EndUpload

UploadSpec == UploadInit /\ [][UploadNext]_upload_vars

\* The request runs, and so does the process it waits for: it is PHP that runs
\* it, and a program that validates uploads ends. Nothing makes waitpid fail.
UploadFairness == WF_upload_vars(Fork \/ NoFork) /\ WF_upload_vars(Wait) /\ \A f \in Files : WF_upload_vars(Child(f))
UploadFairSpec == UploadSpec /\ UploadFairness

-----------------------------------------------------------------------------
(* Properties *)

Callbacks == {"none", "first", "sp", "other"}
UploadTypeOK == /\ uploadcfg \in UploadConfigs \cup {NoValidation} /\ {before, callback} \subseteq Callbacks
                /\ next \in [{"first", "sp", "other"} -> Callbacks]
                /\ progress \in {"idle", "files", "wait", "script", "dropped", "crashed"}
                /\ files \in 0..MaxFiles /\ file \in 0..MaxFiles + 1
                /\ child \in [Files -> {"none", "forked", "runs", "killed", "0", "1"}]
                /\ passed \in [Files -> {"no", "status", "simulation", "no fork", "no status"}]
                /\ progress \in {"files", "wait"} => file \in 1..files

Validated == progress = "script" /\ uploadcfg.enable /\ "sp" \in Called

\* The script of the request starts after all of its files are through, and
\* outside of simulation a file whose program said no is through only when
\* nobody could read what it said.
NoFileSlipsThrough ==
  Validated => \A f \in 1..files : /\ passed[f] # "no"
                                   /\ passed[f] = "simulation" => uploadcfg.simulation
                                   /\ passed[f] = "status" => child[f] \in {"0", "killed"}

\* No more than one program runs at a time, and none is left when the script
\* starts, but for those that could not be waited for.
OneAtATime == \A f \in Files : child[f] \in {"forked", "runs"} =>
                                 (progress = "wait" /\ f = file) \/ passed[f] = "no status"
                                 \/ (progress = "dropped" /\ f = file)

\* If another callback was there before, the chain ends, however often the
\* configuration is applied and whoever hooks in between. (With none there before,
\* hook_upload takes the one in front for its original when it runs again.)
ChainEnds == before = "first" => ~Loops /\ "first" \in Called /\ (uploadcfg.enable => "sp" \in Called)

\* A request with files is answered: its script starts, or it is dropped.
Answered == progress \in {"files", "wait"} ~> progress \in {"script", "dropped"}
=============================================================================
