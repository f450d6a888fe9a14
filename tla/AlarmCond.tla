----------------------------- MODULE AlarmCond ------------------------------
(***************************************************************************)
(* The alarm program (src/alarm_cond.cpp, 86-310): main inserts alarms     *)
(* into a list in order of time, a thread takes the first, waits for its   *)
(* time and handles it, or puts it back when an earlier one has come.      *)
(*                                                                         *)
(* The thread holds alarm_mutex except while it waits, so main inserts only *)
(* then.  An alarm thread that is awake but has not got the mutex yet is   *)
(* "check", "late" or "awake".                                             *)
(***************************************************************************)
EXTENDS Naturals, Sequences, FiniteSets

CONSTANTS
    MaxAlarms,  \* bound: the alarms, numbered in the order of their input
    MaxTime     \* bound: the seconds that pass

Alarms == 1..MaxAlarms
Delays == {0, 1, 3} \* seconds of an input line
ZERO == 0
None == 0

VARIABLES
    now,           \* 1..MaxTime: steady_clock
    time,          \* [Alarms -> Nat]: alarm_t::time, ZERO before it is made
    alarm_list,    \* Seq(Alarms)
    current_alarm, \* a time, or ZERO
    longest,       \* the static variable of alarm_insert()
    enabled,
    pc,            \* where the alarm thread is
    alarm,         \* the alarm that it has taken, or None
    deadline,      \* when wait_for(timeleft) times out
    timeleft,
    handled        \* the alarms that were handled

vars == <<now, time, alarm_list, current_alarm, longest, enabled, pc, alarm, deadline, timeleft, handled>>

States == {"top", "check", "empty", "timed", "late", "awake", "ended"}
Inserted == {a \in Alarms : time[a] # ZERO}

Init ==
    /\ now = 1 /\ time = [a \in Alarms |-> ZERO]
    /\ alarm_list = <<>> /\ current_alarm = ZERO /\ longest = None
    /\ enabled = TRUE /\ pc = "top" /\ alarm = None /\ deadline = 0 /\ timeleft = 0
    /\ handled = {}

-----------------------------------------------------------------------------
(* alarm_insert()                                                          *)

\* Behind the alarms that are not later.
Before(a, t) == Cardinality({i \in DOMAIN alarm_list : t[alarm_list[i]] <= t[a]})
ListWith(a, t) ==
    SubSeq(alarm_list, 1, Before(a, t)) \o <<a>> \o SubSeq(alarm_list, Before(a, t) + 1, Len(alarm_list))

LongestWith_any(a, t) == a \* mutant: set for every new alarm
LongestWith(a, t) == IF Before(a, t) = Len(alarm_list) THEN a ELSE longest

\* The alarm thread is to look at the list again.
Wakes(t) == current_alarm = ZERO \/ t < current_alarm

\* Insert a, the times being t; the alarm thread waits at s.
AlarmInsert(a, t, s) ==
    /\ alarm_list' = ListWith(a, t)
    /\ longest' = LongestWith(a, t)
    /\ IF Wakes(t[a])
         THEN /\ current_alarm' = t[a]
              /\ pc' = CASE s = "empty" -> "check" [] s = "timed" -> "awake" [] OTHER -> s
         ELSE current_alarm' = current_alarm /\ pc' = s

-----------------------------------------------------------------------------
(* main()                                                                  *)

\* The mutex is free wherever the alarm thread waits for it or for something.
Insert(a) ==
    /\ enabled /\ time[a] = ZERO /\ \A b \in 1..(a - 1) : time[b] # ZERO
    /\ \E d \in Delays :
          LET t == [time EXCEPT ![a] = now + d]
          IN  time' = t /\ AlarmInsert(a, t, pc)
    /\ UNCHANGED <<now, enabled, alarm, deadline, timeleft, handled>>

\* EOF: enabled = false and notify_all(); then main joins the thread.
Woken_never(s) == s \* mutant: without notify_all()
Woken(s) == CASE s = "empty" -> "check" [] s = "timed" -> "awake" [] OTHER -> s

Eof ==
    /\ enabled
    /\ enabled' = FALSE
    /\ pc' = Woken(pc)
    /\ UNCHANGED <<now, time, alarm_list, current_alarm, longest, alarm, deadline, timeleft, handled>>

-----------------------------------------------------------------------------
(* alarm_thread(); a turn holds the mutex from one wait to the next        *)

\* "current_alarm = ZERO" and on to the loop.
Top ==
    /\ pc = "top"
    /\ current_alarm' = ZERO
    /\ pc' = "check"
    /\ UNCHANGED <<now, time, alarm_list, longest, enabled, alarm, deadline, timeleft, handled>>

Due_soon(a) == time[a] <= now + 1 \* mutant: off by one
Due(a) == time[a] <= now

\* Wait for work, leave, or take the first alarm: handle it at once or wait.
Check ==
    /\ pc = "check"
    /\ UNCHANGED <<now, time, longest, enabled>>
    /\ \/ ~enabled /\ pc' = "ended" /\ UNCHANGED <<alarm_list, current_alarm, alarm, deadline, timeleft, handled>>
       \/ /\ enabled /\ alarm_list = <<>> /\ pc' = "empty"
          /\ UNCHANGED <<alarm_list, current_alarm, alarm, deadline, timeleft, handled>>
       \/ /\ enabled /\ alarm_list # <<>>
          /\ alarm_list' = Tail(alarm_list)
          /\ LET a == Head(alarm_list)
             IN  IF Due(a)
                   THEN /\ handled' = handled \cup {a}
                        /\ pc' = "top" /\ UNCHANGED <<current_alarm, alarm, deadline, timeleft>>
                   ELSE /\ alarm' = a /\ current_alarm' = time[a]
                        /\ timeleft' = time[a] - now /\ deadline' = time[a]
                        /\ pc' = "timed" /\ UNCHANGED handled

\* wait_for(timeleft) says that it has timed out, as it may also do when it was woken
\* and gets the mutex back behind the deadline, ...
TimeOut ==
    /\ pc \in {"timed", "awake"} /\ now >= deadline
    /\ pc' = "late"
    /\ UNCHANGED <<now, time, alarm_list, current_alarm, longest, enabled, alarm, deadline, timeleft, handled>>

\* ... and the alarm is handled, or left behind when the program ends.
Late ==
    /\ pc = "late"
    /\ alarm' = None /\ deadline' = 0 /\ timeleft' = 0
    /\ IF enabled THEN handled' = handled \cup {alarm} /\ pc' = "top"
                  ELSE UNCHANGED handled /\ pc' = "ended"
    /\ UNCHANGED <<now, time, alarm_list, current_alarm, longest, enabled>>

\* wait_for() may also end for nothing.
SpuriousWakeup ==
    /\ pc = "timed"
    /\ pc' = "awake"
    /\ UNCHANGED <<now, time, alarm_list, current_alarm, longest, enabled, alarm, deadline, timeleft, handled>>

\* Awake: leave, put the alarm back because of an earlier one, or wait
\* again, for as long as at first.
PutBack_lost == FALSE \* mutant: the alarm is not put back
PutBack == TRUE

Awake ==
    /\ pc = "awake"
    /\ UNCHANGED <<now, time, enabled, handled>>
    /\ IF enabled /\ time[alarm] = current_alarm
         THEN /\ deadline' = now + timeleft /\ pc' = "timed"
              /\ UNCHANGED <<alarm_list, current_alarm, longest, alarm, timeleft>>
         ELSE /\ alarm' = None /\ deadline' = 0 /\ timeleft' = 0
              /\ IF enabled /\ PutBack
                   THEN AlarmInsert(alarm, time, "top")
                   ELSE /\ pc' = IF enabled THEN "top" ELSE "ended"
                        /\ UNCHANGED <<alarm_list, current_alarm, longest>>

Tick ==
    /\ now < MaxTime /\ now' = now + 1
    /\ UNCHANGED <<time, alarm_list, current_alarm, longest, enabled, pc, alarm, deadline, timeleft, handled>>

AlarmThread == Top \/ Check \/ TimeOut \/ Late \/ Awake

Next == AlarmThread \/ SpuriousWakeup \/ Tick \/ Eof \/ \E a \in Alarms : Insert(a)

\* The alarm thread runs, and time passes.
Fairness == WF_vars(AlarmThread) /\ WF_vars(Tick)

Spec == Init /\ [][Next]_vars /\ Fairness

-----------------------------------------------------------------------------
\* Every variable has its type.
TypeOK ==
    /\ now \in 1..MaxTime /\ time \in [Alarms -> 0..MaxTime + 3]
    /\ alarm_list \in Seq(Alarms) /\ current_alarm \in 0..MaxTime + 3
    /\ longest \in Alarms \cup {None} /\ enabled \in BOOLEAN /\ pc \in States
    /\ alarm \in Alarms \cup {None} /\ deadline \in 0..2 * MaxTime + 3 /\ timeleft \in 0..MaxTime + 3
    /\ handled \in SUBSET Alarms

\* While the program runs, an alarm that was inserted is in the list, in the
\* thread's hand or handled, in one of the three and once, whichever order the
\* timeout, the next input and the putting back come in (167-245).
NothingLost ==
    enabled => \A a \in Alarms :
        Cardinality({i \in DOMAIN alarm_list : alarm_list[i] = a})
            + (IF alarm = a THEN 1 ELSE 0) + (IF a \in handled THEN 1 ELSE 0)
              = IF a \in Inserted THEN 1 ELSE 0

\* The list is sorted, and `longest` is its last alarm: it is not dangling when
\* alarm_insert() reads it (146, 160-161) although the alarm it pointed to may have
\* been handled and deleted in between.
LongestIsLast ==
    /\ \A i, j \in DOMAIN alarm_list : i < j => time[alarm_list[i]] <= time[alarm_list[j]]
    /\ alarm_list # <<>> => longest = alarm_list[Len(alarm_list)]

\* No alarm is handled before its time, not even when the timeout of one wait
\* and the notification for an earlier alarm fall together (217-220).
HandlesDue == \A a \in handled' \ handled : time[a] <= now
NeverEarly == [][HandlesDue]_vars

\* Every alarm whose time comes is handled, unless a wakeup for nothing has put it
\* off (213-222), and when the input has ended the thread ends.  (As MaxAlarms come
\* and MaxTime passes: from some time on it is so.)
PutOff == alarm # None /\ deadline > time[alarm] /\ deadline > MaxTime
AllHandled ==
    IF enabled THEN PutOff \/ {a \in Inserted : time[a] <= MaxTime} \subseteq handled
               ELSE pc = "ended"
AlarmsHandled == <>[]AllHandled

\* The inductive invariant: an alarm that was inserted is in one place (while the
\* program runs), and the thread that waits or is about to handle the alarm in its
\* hand does not think that its time is earlier than it is.
InList(a) == \E i \in DOMAIN alarm_list : alarm_list[i] = a
IInv ==
    /\ TypeOK /\ LongestIsLast
    /\ \A i, j \in DOMAIN alarm_list : alarm_list[i] = alarm_list[j] => i = j
    /\ \A a \in Alarms :
          /\ InList(a) \/ alarm = a \/ a \in handled => a \in Inserted
          /\ enabled /\ a \in Inserted => InList(a) \/ alarm = a \/ a \in handled
          /\ ~(InList(a) /\ alarm = a) /\ ~(InList(a) /\ a \in handled) /\ ~(alarm = a /\ a \in handled)
    /\ alarm # None <=> pc \in {"timed", "late", "awake"}
    /\ pc \in {"timed", "awake"} => now + timeleft >= time[alarm]
    /\ pc \in {"timed", "awake"} => deadline >= time[alarm]
    /\ pc = "late" => now >= time[alarm]
    /\ timeleft < MaxTime + 3
=============================================================================
