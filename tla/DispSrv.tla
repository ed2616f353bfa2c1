------------------------------ MODULE DispSrv ------------------------------
(***************************************************************************)
(* dispsrv, the display service: ADTimer's main loop and timer thread,     *)
(* DispScanner, which looks for the display every few ticks, and           *)
(* DispCtrlRpc, which serves the requests.                                 *)
(*                                                                         *)
(* Three threads share DataCache.pDisplay without a lock: the timer thread *)
(* creates and deletes the display object as the display is plugged and    *)
(* unplugged, the request thread calls it, and main deletes it at the end. *)
(* main then destroys its local objects, the timer last.  Before that it   *)
(* reports the shutdown to its own service, by a call that waits without   *)
(* limit (see RpcClient).                                                  *)
(*                                                                         *)
(* The display is an SSD1306 OLED or a PCF8574 LCD.  An OLED object        *)
(* initialises its panel once and turns it off in its destructor; an LCD   *)
(* object initialises it whenever it is told to.                           *)
(*                                                                         *)
(* An object has a number; a number in "freed" is memory given back.  What *)
(* a call on freed memory does is not modelled: it is recorded in          *)
(* "dangling" and goes on as if the object were still there.               *)
(***************************************************************************)
EXTENDS Naturals, FiniteSets

CONSTANTS
    MaxPlugs,           \* bound on the times it is plugged in or a probe fails
    MaxIp,              \* bound on the addresses the board gets
    MaxCalls,           \* bound on the requests
    MaxBacklog,         \* bound on the ticks the timer thread is behind
    DISP_SCAN_DURATION  \* ticks between two scans

ASSUME DispSrvAssumption ==
    /\ MaxPlugs \in Nat /\ MaxIp \in Nat \ {0} /\ MaxCalls \in Nat
    /\ MaxBacklog \in Nat \ {0} /\ DISP_SCAN_DURATION \in Nat \ {0}

VARIABLES
    oled,               \* the display is an OLED
    plugged, plugs,     \* it is there; plugged in and failed probes so far
    screen,             \* what it shows: Dark, Blank, User, or an address
    ip,                 \* the board's address
    pDisplay,           \* the display object, NULL if none
    objects, freed,     \* display objects made, and those deleted
    ssoledinit,         \* OLED objects that have found their panel
    tpc, tid,           \* the timer thread, and whether it has stored its id
    one_shot_sema,      \* ticks posted to it
    TimerCount,         \* ticks since the last scan
    last_ip,            \* the address last shown, 0 for "none"
    hpc, pDisp, calls,  \* the request thread, its copy of pDisplay, requests
    mpc,                \* the main thread
    received_user_stop_sig,
    lost,               \* the call that reports the shutdown was dropped
    hotplug,            \* the display did not answer all the time
    missed,             \* it was replugged without a scan noticing
    dangling            \* who has used or deleted freed memory

envVars == <<oled, plugged, plugs, ip>>
panel   == <<screen, ssoledinit>>
heap    == <<pDisplay, objects, freed>>
tmrVars == <<tpc, tid, TimerCount, last_ip>>
rpcVars == <<hpc, pDisp, calls>>
history == <<hotplug, missed, dangling>>
sigVars == <<received_user_stop_sig, lost>>
dispVars == <<envVars, panel, heap, tmrVars, one_shot_sema, rpcVars, mpc,
              sigVars, history>>

NULL   == 0
Ip     == 1..MaxIp
Dark == <<"dark">>
Blank == <<"blank">>
User == <<"user">>
Address(i) == <<"ip", i>>
Screen == {Dark, Blank, User} \cup {Address(i) : i \in Ip}
Thread == {"scanner", "handler", "main"}

DispTypeOK ==
    /\ oled \in BOOLEAN /\ plugged \in BOOLEAN /\ plugs \in 0..MaxPlugs
    /\ screen \in Screen
    /\ ip \in Ip
    /\ objects \in Nat /\ pDisplay \in 0..objects /\ freed \subseteq 1..objects
    /\ ssoledinit \subseteq 0..objects
    /\ tpc \in {"start", "sem", "probe", "delete", "null", "create", "init",
                "welcome", "ended"}
    /\ tid \in BOOLEAN
    /\ one_shot_sema \in 0..(MaxBacklog + 1)
    /\ TimerCount \in 0..(DISP_SCAN_DURATION - 1)
    /\ last_ip \in Ip \cup {0}
    /\ hpc \in {"idle", "check", "use", "ended"}
    /\ pDisp \in 0..objects /\ calls \in 0..MaxCalls
    /\ mpc \in {"wait", "notify", "delete", "rpcs", "rpcmgr", "timer", "join",
                "exit"}
    /\ received_user_stop_sig \in BOOLEAN /\ lost \in BOOLEAN
    /\ hotplug \in BOOLEAN /\ missed \in BOOLEAN
    /\ dangling \subseteq Thread

\* main has made the timer, the display its command line names, if any, and
\* the other objects, and goes into wait_for_exit_signal.
DispInit ==
    /\ oled \in BOOLEAN /\ plugged \in BOOLEAN /\ plugs = 0 /\ ip = 1
    /\ objects \in {0, 1} /\ pDisplay = objects /\ freed = {}
    /\ screen = IF plugged /\ pDisplay # NULL THEN Blank ELSE Dark
    /\ ssoledinit = IF oled /\ plugged THEN {pDisplay} \ {NULL} ELSE {}
    /\ tpc = "start" /\ tid = FALSE /\ one_shot_sema = 0
    /\ TimerCount = 0 /\ last_ip = 0
    /\ hpc = "idle" /\ pDisp = NULL /\ calls = 0
    /\ mpc = "wait" /\ received_user_stop_sig = FALSE /\ lost = FALSE
    /\ hotplug = ~(plugged <=> pDisplay # NULL)
    /\ missed = FALSE /\ dangling = {}

\* Thread t uses object o.
Use(t, o) ==
    dangling' = IF o = NULL \/ o \in freed THEN dangling \cup {t} ELSE dangling

\* init_display of object o, which leaves s on a display that is there: an OLED
\* that was initialised is not initialised again, whatever became of it.
InitPanel(o, s) ==
    /\ screen' = IF plugged /\ o \notin ssoledinit THEN s ELSE screen
    /\ ssoledinit' = IF oled /\ plugged THEN ssoledinit \cup {o} ELSE ssoledinit

\* The destructor of object o turns its OLED off.
oledPowerOff(o) ==
    /\ screen' = IF o \in ssoledinit THEN Dark ELSE screen
    /\ UNCHANGED ssoledinit
-----------------------------------------------------------------------------
(* The outside, as long as the service runs                                *)

Unplug ==
    /\ plugged /\ mpc # "exit"
    /\ plugged' = FALSE /\ screen' = Dark
    /\ hotplug' = TRUE
    /\ UNCHANGED <<oled, plugs, ip, ssoledinit, heap, tmrVars, one_shot_sema,
                   rpcVars, mpc, sigVars, missed, dangling>>

\* The timer thread misses it if the object of the display that was unplugged
\* is still there, and it is not about to delete or to initialise it.
Plug ==
    /\ ~plugged /\ plugs < MaxPlugs /\ mpc # "exit"
    /\ plugged' = TRUE /\ plugs' = plugs + 1
    /\ hotplug' = TRUE
    /\ missed' = (missed \/ /\ pDisplay # NULL /\ tpc \notin {"delete", "null"}
                            /\ ~(tpc = "init" /\ pDisplay \notin ssoledinit))
    /\ UNCHANGED <<oled, ip, panel, heap, tmrVars, one_shot_sema, rpcVars, mpc,
                   sigVars, dangling>>

NewIp ==
    /\ ip < MaxIp /\ mpc # "exit"
    /\ ip' = ip + 1
    /\ UNCHANGED <<oled, plugged, plugs, panel, heap, tmrVars, one_shot_sema,
                   rpcVars, mpc, sigVars, history>>
-----------------------------------------------------------------------------
\* Where the loop of the timer thread goes on: thread_state is active until stop_thread.
Loop == IF mpc = "join" THEN "ended" ELSE "sem"
-----------------------------------------------------------------------------
(* Plausible mistakes in the code below.  No specification uses them.      *)

\* The display object is made anew on every other scan.
scannedAnew(found) ==
    IF pDisplay # NULL THEN "delete" ELSE IF found THEN "create" ELSE Loop

\* The address is shown when the display is new, and not when it changes.
print_lineOnce ==
    /\ tpc = "welcome"
    /\ IF last_ip = 0
       THEN /\ Use("scanner", pDisplay)
            /\ screen' = IF screen = Dark THEN Dark ELSE Address(ip)
            /\ last_ip' = ip
       ELSE UNCHANGED <<dangling, screen, last_ip>>
    /\ tpc' = "sem"
    /\ UNCHANGED <<envVars, ssoledinit, heap, tid, TimerCount, one_shot_sema,
                   rpcVars, mpc, sigVars, hotplug, missed>>

\* A tick does not end the wait.
sigalrmOnlyTicks ==
    /\ mpc = "wait"
    /\ one_shot_sema < MaxBacklog
    /\ one_shot_sema' = one_shot_sema + 1
    /\ UNCHANGED <<envVars, panel, heap, tmrVars, rpcVars, mpc, sigVars, history>>
-----------------------------------------------------------------------------
(* The main thread                                                         *)

\* wait_for_exit_signal takes a SIGALRM: a post for the timer thread, and a
\* look at the flag.
sigalrm ==
    /\ mpc = "wait"
    /\ one_shot_sema < MaxBacklog
    /\ one_shot_sema' = one_shot_sema + 1
    /\ mpc' = IF received_user_stop_sig THEN "notify" ELSE "wait"
    /\ UNCHANGED <<envVars, panel, heap, tmrVars, rpcVars, sigVars, history>>

sigterm ==
    /\ mpc = "wait"
    /\ received_user_stop_sig' = TRUE
    /\ mpc' = "notify"
    /\ UNCHANGED <<envVars, panel, heap, tmrVars, one_shot_sema, rpcVars, lost,
                   history>>

\* The worker thread runs the task of a shutdown request.
forced_exit ==
    /\ mpc = "wait" /\ ~received_user_stop_sig
    /\ received_user_stop_sig' = TRUE
    /\ UNCHANGED <<envVars, panel, heap, tmrVars, one_shot_sema, rpcVars, mpc,
                   lost, history>>

\* The main thread goes on from a to b.
MainStep(a, b) ==
    /\ mpc = a /\ mpc' = b
    /\ UNCHANGED <<envVars, pDisplay, objects, TimerCount, tid, last_ip, pDisp, calls, sigVars, hotplug, missed>>

\* NOTIFY_EVENT to the service's own port: the call returns when the request
\* thread has served it (stop_timer then stops posts that main makes itself),
NOTIFY_EVENT ==
    /\ MainStep("notify", "delete")
    /\ ~lost /\ hpc = "idle"
    /\ UNCHANGED <<panel, freed, tpc, hpc, one_shot_sema, dangling>>

\* or at once if it cannot connect;
notifyUnconnected ==
    /\ MainStep("notify", "delete")
    /\ ~lost
    /\ UNCHANGED <<panel, freed, tpc, hpc, one_shot_sema, dangling>>

\* but if the service drops the request or its answer, it never does.
notifyLost ==
    /\ mpc = "notify"
    /\ lost' = TRUE
    /\ UNCHANGED <<envVars, panel, heap, tmrVars, one_shot_sema, rpcVars, mpc,
                   received_user_stop_sig, history>>

deleteDisplay ==
    /\ MainStep("delete", "rpcs")
    /\ IF pDisplay = NULL THEN UNCHANGED <<freed, panel, dangling>>
       ELSE /\ Use("main", pDisplay)
            /\ freed' = freed \cup {pDisplay} /\ oledPowerOff(pDisplay)
    /\ UNCHANGED <<tpc, hpc, one_shot_sema>>

\* The DispCtrlRpc objects go before RpcMgr, whose threads call them.
destroyRpcs ==
    /\ MainStep("rpcs", "rpcmgr")
    /\ UNCHANGED <<panel, freed, tpc, hpc, one_shot_sema, dangling>>

\* RpcMgr's threads are cancelled and joined, and the scanner destroyed.
destroyRpcMgr ==
    /\ MainStep("rpcmgr", "timer")
    /\ hpc' = "ended"
    /\ UNCHANGED <<panel, freed, tpc, one_shot_sema, dangling>>

\* stop_thread: thread_state is inactive and the semaphore posted once more,
\* and then the thread is cancelled and joined, if it has stored its id.
stop_thread ==
    /\ MainStep("timer", "join")
    /\ one_shot_sema' = one_shot_sema + 1
    /\ UNCHANGED <<panel, freed, tpc, hpc, dangling>>

pthread_join ==
    /\ MainStep("join", "exit")
    /\ tpc' = IF tid THEN "ended" ELSE tpc
    /\ UNCHANGED <<panel, freed, hpc, one_shot_sema, dangling>>
-----------------------------------------------------------------------------
(* The timer thread: my_thread_func, which calls the scanner               *)

TimerStep(a) ==
    /\ mpc # "exit"
    /\ tpc = a
    /\ UNCHANGED <<envVars, objects, tid, rpcVars, mpc, sigVars, hotplug>>

my_thread_func ==
    /\ mpc # "exit"
    /\ tpc = "start" /\ tpc' = Loop
    /\ tid' = TRUE
    /\ UNCHANGED <<envVars, panel, heap, TimerCount, last_ip, one_shot_sema,
                   rpcVars, mpc, sigVars, history>>

\* A post.  DispScanner and DataCache are gone when main destroys the timer.
timer_notification ==
    /\ TimerStep("sem")
    /\ one_shot_sema > 0
    /\ one_shot_sema' = one_shot_sema - 1
    /\ TimerCount' = (TimerCount + 1) % DISP_SCAN_DURATION
    /\ tpc' = IF TimerCount' = 0 THEN "probe" ELSE Loop
    /\ dangling' = IF mpc \in {"timer", "join"} THEN dangling \cup {"scanner"} ELSE dangling
    /\ UNCHANGED <<panel, pDisplay, freed, last_ip, missed>>

\* Where a scan goes on that has found the display, or has not: the object, which
\* only this thread creates and deletes, is brought in line with what was found.
scanned(found) ==
    IF pDisplay # NULL THEN (IF found THEN "welcome" ELSE "delete")
                       ELSE (IF found THEN "create" ELSE Loop)

check_for_i2c_addr ==
    /\ TimerStep("probe")
    /\ tpc' = scanned(plugged)
    /\ UNCHANGED <<panel, pDisplay, freed, last_ip, TimerCount, one_shot_sema,
                   missed, dangling>>

\* A probe of a display that is there fails: no device node can be listed or
\* opened, or the display does not answer.
probeFails ==
    /\ mpc # "exit"
    /\ tpc = "probe" /\ tpc' = scanned(FALSE)
    /\ plugged /\ plugs < MaxPlugs
    /\ plugs' = plugs + 1
    /\ hotplug' = TRUE
    /\ UNCHANGED <<oled, plugged, ip, panel, heap, tid, TimerCount, last_ip,
                   one_shot_sema, rpcVars, mpc, sigVars, missed, dangling>>

\* "display has been unplugged"
delete ==
    /\ TimerStep("delete")
    /\ Use("scanner", pDisplay)
    /\ freed' = freed \cup {pDisplay} /\ oledPowerOff(pDisplay)
    /\ tpc' = "null"
    /\ UNCHANGED <<pDisplay, TimerCount, last_ip, one_shot_sema, missed>>

null ==
    /\ TimerStep("null")
    /\ pDisplay' = NULL
    /\ last_ip' = 0
    /\ missed' = FALSE
    /\ tpc' = Loop
    /\ UNCHANGED <<panel, freed, TimerCount, one_shot_sema, dangling>>

\* "display has been plugged"
create_display_device ==
    /\ tpc = "create"
    /\ mpc # "exit"
    /\ objects' = objects + 1
    /\ pDisplay' = objects'
    /\ InitPanel(objects', Blank)
    /\ tpc' = "init"
    /\ UNCHANGED <<envVars, freed, tid, TimerCount, last_ip, one_shot_sema, rpcVars,
                   mpc, sigVars, history>>

init_display ==
    /\ TimerStep("init")
    /\ Use("scanner", pDisplay)
    /\ InitPanel(pDisplay, Blank)
    /\ last_ip' = 0
    /\ tpc' = "welcome"
    /\ UNCHANGED <<pDisplay, freed, TimerCount, one_shot_sema, missed>>

\* The address, if it is not the one shown last.
print_line ==
    /\ TimerStep("welcome")
    /\ IF ip # last_ip
       THEN /\ Use("scanner", pDisplay)
            /\ screen' = IF screen = Dark THEN Dark ELSE Address(ip)
            /\ last_ip' = ip
       ELSE UNCHANGED <<dangling, screen, last_ip>>
    /\ tpc' = Loop
    /\ UNCHANGED <<ssoledinit, pDisplay, freed, TimerCount, one_shot_sema, missed>>
-----------------------------------------------------------------------------
(* The request thread: process_disp_init, process_clear_display,           *)
(* process_print_display, process_backlight_get and process_backlight_set  *)
(* copy the pointer, test the original, and use the copy                   *)

RequestStep(a) ==
    /\ hpc = a
    /\ UNCHANGED <<envVars, heap, tmrVars, one_shot_sema, mpc, sigVars, hotplug,
                   missed>>

\* A DispCtrlRpc object may be gone when main destroys RpcMgr.
process_display ==
    /\ RequestStep("idle")
    /\ calls < MaxCalls
    /\ calls' = calls + 1
    /\ pDisp' = pDisplay
    /\ hpc' = "check"
    /\ dangling' = IF mpc = "rpcmgr" THEN dangling \cup {"handler"} ELSE dangling
    /\ UNCHANGED panel

checkDisplay ==
    /\ RequestStep("check")
    /\ IF pDisplay # NULL THEN hpc' = "use" /\ UNCHANGED pDisp
                          ELSE hpc' = "idle" /\ pDisp' = NULL
    /\ UNCHANGED <<panel, calls, dangling>>

\* init_display, or a call that writes to a display that is on, or one about
\* the backlight.
useDisplay ==
    /\ RequestStep("use")
    /\ Use("handler", pDisp)
    /\ \/ InitPanel(pDisp, User)
       \/ screen' = (IF screen = Dark THEN Dark ELSE User) /\ UNCHANGED ssoledinit
       \/ UNCHANGED panel
    /\ hpc' = "idle" /\ pDisp' = NULL
    /\ UNCHANGED calls
-----------------------------------------------------------------------------
MainThread ==
    \/ sigalrm \/ NOTIFY_EVENT \/ deleteDisplay \/ destroyRpcs \/ destroyRpcMgr
    \/ stop_thread \/ pthread_join

TimerThread ==
    \/ my_thread_func \/ timer_notification \/ check_for_i2c_addr \/ probeFails
    \/ delete \/ null \/ create_display_device \/ init_display \/ print_line

DispNext ==
    \/ Unplug \/ Plug \/ NewIp
    \/ MainThread \/ sigterm \/ forced_exit \/ notifyUnconnected \/ notifyLost
    \/ TimerThread
    \/ process_display \/ checkDisplay \/ useDisplay

DispSpec == DispInit /\ [][DispNext]_dispVars

\* The interval timer ticks on, and calls to a display return.
DispFairSpec ==
    DispSpec /\ WF_dispVars(MainThread) /\ WF_dispVars(TimerThread)
         /\ WF_dispVars(checkDisplay \/ useDisplay)
-----------------------------------------------------------------------------
(* Properties                                                              *)

\* main has not deleted the display yet.
Up == mpc \in {"wait", "notify", "delete"}

\* The timer thread, which alone creates and deletes displays until main
\* does, never touches a deleted one before that.  A request does only if the
\* display comes or goes, or fails to answer a probe, while the service runs,
\* or main has deleted it; and main deletes a deleted display only if the
\* display had gone or had not answered.
DanglingOnlyIf ==
    /\ "scanner" \in dangling => ~Up
    /\ "handler" \in dangling => hotplug \/ ~Up
    /\ "main" \in dangling => hotplug

\* What makes DanglingOnlyIf inductive: until main deletes the display, a
\* deleted object stays in pDisplay for one step of the timer thread, and none
\* is made or deleted as long as the display stays as it was.
Owned ==
    /\ mpc \notin {"join", "exit"} => one_shot_sema <= MaxBacklog
    /\ tpc \in {"delete", "null", "init", "welcome"} => pDisplay # NULL
    /\ Up /\ pDisplay \in freed => tpc = "null"

Still ==
    ~hotplug =>
        /\ plugged <=> pDisplay # NULL
        /\ tpc \notin {"delete", "null", "create", "init"}
        /\ hpc \in {"check", "use"} => pDisp = pDisplay
        /\ hpc = "use" => pDisplay # NULL
        /\ Up => freed = {}

DispIInv == DispTypeOK /\ Owned /\ Still /\ DanglingOnlyIf

\* A display that stays plugged in ends up with the board's address on it, or
\* with what a request put there, however often a probe of it has failed, unless
\* it was replugged without a scan noticing: between two scans, or between the
\* two calls of init_display on a new OLED object.
AddressShown ==
    \A i \in Ip :
        <>[](plugged /\ ~missed /\ ip = i /\ mpc = "wait") =>
            <>[](screen \in {Address(i), User})

\* A shutdown request ends the service, although the flag is set by another
\* thread than the one that waits for signals, unless the service drops the
\* call with which main reports the shutdown to it.  (The flag is never taken
\* back, so this says that each request leads to the one or the other.)
ShutdownEnds ==
    []<>(received_user_stop_sig => mpc = "exit" \/ lost)
=============================================================================
