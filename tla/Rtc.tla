---------------------------------- MODULE Rtc ----------------------------------
(***************************************************************************)
(* The real-time clock (src/hw/dev_rtc.c) with host time passing between   *)
(* any two accesses of the guest, and the monitor's `time` command, which  *)
(* reads hour, minute and second one after the other (do_time in           *)
(* src/firmware/monitor/monitor.s).                                        *)
(*                                                                         *)
(* The calendar fields are those of a time as digits; Radix is 60 in the   *)
(* program.  History variables: seen, what was read since the last change  *)
(* of the freeze; best, the latest SECONDS read; set, the last time that   *)
(* was set and when.                                                       *)
(***************************************************************************)
EXTENDS Naturals

CONSTANTS Radix, MaxTime
ASSUME RtcAssumption == Radix \in Nat \ {0} /\ MaxTime \in Nat

VARIABLES now, frozen, wena, latched, seen, best, set, askedAt, nread, digits
display == <<askedAt, nread, digits>>
rtcVars == <<now, frozen, wena, latched, seen, best, set, askedAt, nread, digits>>

Times == 0 .. MaxTime
Fields == {"SECONDS", "HOUR", "MIN", "SEC"}
Field(f, t) ==
  CASE f = "SECONDS" -> t
    [] f = "SEC" -> t % Radix
    [] f = "MIN" -> (t \div Radix) % Radix
    [] f = "HOUR" -> (t \div Radix) \div Radix

NoReads == [f \in {} |-> 0]
NotSet == [to |-> 0, at |-> 0, done |-> FALSE]

\* arm7vm_create: zeroed, with a first snapshot.
RtcInit ==
  /\ now \in Times
  /\ frozen = FALSE /\ wena = FALSE /\ latched = now
  /\ seen = NoReads /\ best = 0 /\ set = NotSet
  /\ askedAt = 0 /\ nread = 0 /\ digits = [n \in 1 .. 3 |-> 0]

-----------------------------------------------------------------------------
\* The host's clock, up to the bound.
HostTick ==
  /\ now < MaxTime /\ now' = now + 1
  /\ UNCHANGED <<frozen, wena, latched, seen, best, set, askedAt, nread, digits>>

\* What dev_rtc_read32 computes every register from.
Shown == IF frozen THEN latched ELSE now

Extend(reads, f, v) == [x \in DOMAIN reads \union {f} |-> IF x = f THEN v ELSE reads[x]]
Read(f) ==
  /\ seen' = Extend(seen, f, Field(f, Shown))
  /\ best' = IF f = "SECONDS" /\ Shown > best THEN Shown ELSE best
  /\ UNCHANGED <<now, frozen, wena, latched, set>>

Forget == seen' = IF frozen' = frozen THEN seen ELSE NoReads

\* Mutant: every write of FREEZE latches.
WriteCtrlRelatches(freeze, enable) ==
  /\ frozen' = freeze /\ wena' = enable
  /\ latched' = IF freeze THEN now ELSE latched
  /\ Forget /\ UNCHANGED <<now, best, set, askedAt, nread, digits>>

\* Mutant: the snapshot is the one primed at the start.
WriteCtrlKeepsFirst(freeze, enable) ==
  /\ frozen' = freeze /\ wena' = enable
  /\ Forget /\ UNCHANGED <<now, latched, best, set, askedAt, nread, digits>>

\* A rising FREEZE latches a snapshot.
WriteCtrl(freeze, enable) ==
  /\ frozen' = freeze /\ wena' = enable
  /\ latched' = IF freeze /\ ~frozen THEN now ELSE latched
  /\ Forget /\ UNCHANGED <<now, best, set, askedAt, nread, digits>>


\* The time that is set goes into the snapshot, and the clock freezes.
WriteSetSecs(secs) ==
  /\ IF wena
     THEN /\ latched' = secs /\ frozen' = TRUE
          /\ seen' = NoReads /\ set' = [to |-> secs, at |-> now, done |-> TRUE]
     ELSE UNCHANGED <<latched, frozen, seen, set>>
  /\ UNCHANGED <<now, wena, best, askedAt, nread, digits>>

WriteClear ==
  /\ frozen' = FALSE /\ wena' = FALSE
  /\ Forget /\ UNCHANGED <<now, latched, best, set, askedAt, nread, digits>>

-----------------------------------------------------------------------------
\* do_time: three reads with host time in between.
TimeFields == <<"HOUR", "MIN", "SEC">>
DoTime ==
  LET n == IF nread = 3 THEN 1 ELSE nread + 1
      f == TimeFields[n]
  IN  /\ Read(f)
      /\ askedAt' = IF n = 1 THEN now ELSE askedAt
      /\ nread' = n
      /\ digits' = [digits EXCEPT ![n] = Field(f, Shown)]

RtcNext ==
  \/ HostTick
  \/ \E f \in Fields : Read(f) /\ UNCHANGED display
  \/ \E freeze, enable \in BOOLEAN : WriteCtrl(freeze, enable)
  \/ \E secs \in Times : WriteSetSecs(secs)
  \/ WriteClear
  \/ DoTime

RtcSpec == RtcInit /\ [][RtcNext]_rtcVars

-----------------------------------------------------------------------------
\* Every time kept is a time, also a set one.
RtcTypeOK ==
  /\ now \in Times /\ latched \in Times /\ best \in Times /\ askedAt \in Times /\ nread \in 0 .. 3
  /\ frozen \in BOOLEAN /\ wena \in BOOLEAN
  /\ DOMAIN seen \subseteq Fields
  /\ set \in [to : Times, at : Times, done : BOOLEAN]

\* Everything the guest reads from when it froze the clock, or set it, to when
\* it lets it go belongs to one time, whatever the host's clock does and
\* however often FREEZE is written again.
FrozenReadsAgree ==
  frozen => \E t \in Times : \A f \in DOMAIN seen : seen[f] = Field(f, t)

\* Freezing and unfreezing never take the time back: without a set time no
\* SECONDS read is below an earlier one.
TimeNeverGoesBack == ~set.done => best <= Shown

-----------------------------------------------------------------------------
\* The header says of SET_SECS: "write seconds here when CTRL.WENA=1 to set the
\* clock".  A clock that was set goes on from there when it runs again.
SetClockRuns ==
  set.done /\ ~frozen => Shown = set.to + (now - set.at)

\* The help of the monitor: "time   - show RTC time".  The three fields shown
\* are those of a time between the first read and now.
TimeShownIsATime ==
  nread = 3 /\ ~frozen /\ ~set.done =>
    \E t \in askedAt .. now : \A n \in 1 .. 3 : digits[n] = Field(TimeFields[n], t)
=============================================================================
