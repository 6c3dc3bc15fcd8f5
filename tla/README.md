# NetAndSysMonitor in TLA+

NetAndSysMonitor is a collection of Windows programs around one product, `MonitorZSoftWare`: a console
program that watches the processes named in `config.ini` and mails what it finds. Beside it stand a library of
system queries and hardware sensors (`GetSysInfo`, copied into `SensorsInfo` and `SensorsTest`) and SNMP tools.
This directory models the product, the sensor library and the SNMP tools, module by module, checks the models on small
instances with TLC and proves the main results for all instances with TLAPS. The sources are GBK encoded; line numbers are those of the files.

## 1. Inventory

| Part | State it keeps | Operations | What makes it correct |
|---|---|---|---|
| Process monitor (`MonitorZSoftWare/monitor.cpp`) | `procItems`, `gProcSize`, `ProcExist`, `CallbackParam`, the timer | `MonitorFunc` → `ReadConfig`, `BrowseProcesses`, `GetProcessName`, `CheckProecss`, `EnumThreadList`, `ThreadEnumFunc`, `EnumThreadChildProc`, `IfAnyProcessExit`, `Sleep` | what is missing is reported, what runs is not; every abnormal window once, under the right name; every scan ends |
| Configuration reader (`ReadConfig`, same file) | section, count, items, timer | one pass per line of `config.ini` | items are the sections of the file; indices stay inside |
| SMTP client (`MonitorZSoftWare/sendmail.cpp`) | one socket, `m_cReceiveBuff` | `SendMail` → `CReateSocket`, `Logon`, `SendHead`, `SendTextBody`, `SendFileBody`, `SendEnd`, `CloseSocket`; `Char2Base64` | login first, no lost or doubled mails, never waits for ever |
| Notifier (`MonitorZSoftWare/MonitorZSoftWare.cpp`) | mail settings | reads `email.ini`, sends a test mail, `CallbackFunc` mails each message | each message is one mail |
| Ring0 driver access (`GetSysInfo/Ring0.cpp`, `InstDrv.cpp`) | a kernel service shared by all programs, a device handle, a named mutex | `Open` (stop, delete, create, start), `Close`, port and MSR access | a program can open the device, whatever earlier programs left behind |
| Super-I/O detection and chips (`LPC/LPCIO.cpp`, `W836XX.CPP`, `IT87XX.CPP`, `F718XX.CPP`) | configuration mode, bank, address and divisor registers of the chip; `pSuperIO` | the constructors of `LPCIO`; `Update` | the chip is found and left locked; a byte comes from the register meant; divisors come to rest |
| CPU and board sensors (`Sensors.cpp`, `SensorsInfo.cpp`, `SensorsTestDlg.cpp`) | lists of values | refresh | values belong to the sensor named |
| SMART reader (`SmartReader.cpp`) | `m_oSmartInfo` by drive | read all drives | no drive is left out |
| Event log (`EventLog.cpp`) | growing buffer | read, substitute parameters | every record once; ends |
| System information (`sysinfo.cpp`, ...) | two CPU samples | single queries | – |
| Traffic grapher (`ttg-snmp`, `snmp/ttg`) | counters, sums, minima, maxima, `iterations`, the session | `lsif`, `thr`, `finish` (also as the handler of SIGINT) | what is printed at the end is true; it ends |
| SNMP extension agent (`snmp/testdll`) | the toaster MIB, `requestCount`, two events | `SnmpExtensionQuery`, `SnmpExtensionTrap` | the answer is that of the variable named; a trap per trigger |
| SNMP manager samples (`snmp/wsnmp`, `snmp/snmputil`) | `gVars`, the session, a message queue | GET, GETNEXT, GETBULK, SET, WALK, SUBTREE, trap | answers belong to requests; a walk shows its subtree once and in order |
| Prototype and dialogs (`Monitor`, `MonitorExe`, `MonitorDLL`, ...) | – | – | an earlier monitor and empty skeletons |

**How they interact.** `MonitorZSoftWare.cpp` reads `email.ini` and calls `StartMonitor`, which starts a thread
running `MonitorFunc`. The thread calls the registered `CallbackFunc` (MsgFunc) for every message, which calls
`CSendMail::SendMail` synchronously, so every message costs a whole SMTP session during which the watched
system goes on. The windows of a process are looked at by callbacks nested in one another (`EnumThreadWindows`
→ `ThreadEnumFunc` → `EnumChildWindows` → `EnumThreadChildProc`) that share one `CallbackParam`. The sensor
library is a separate DLL that the product does not call; two programs that use it share the kernel driver, the
ports of the Super-I/O chip and the mutex `Access_ISABUS.HTP.Method`. The SNMP managers talk to the agent through the SNMP
service of Windows and WinSNMP or the management API, both external, over a network that loses and delays.

**What is hard.** Everything the monitor reads of the system is stale at the next line; state kept across scans
(`ProcExist`, `procItems`, the timer); state shared by nested callbacks (`HungReported`, `WinReported`); a
protocol whose answers arrive in pieces and are mostly ignored; a receive buffer that keeps its contents when
`recv` fails; a blocking `recv` without a timeout; indices computed from files and signed chars; a chip whose ports are
a protocol of several accesses, and programs killed in the middle of it; a kernel service that every program stops when
it leaves; responses that come after their request was given up; a signal handler that runs between any two statements. `PROJECT.json`
lists these hazards with their lines, and the properties that watch each.

## 2. The modules

| Module | Models | Role |
|---|---|---|
| `ProcessMonitor` | the loop of monitor.cpp and the system it watches | specification, properties |
| `ProcessMonitorProofs` | – | theorems about it |
| `ConfigReader` | `ReadConfig`, `ReadProcessConfig`, `ReadSettingConfig` line by line | specification, checked directly |
| `ConfigReaderProofs` | – | theorems about it |
| `MailClient` | `CSendMail::SendMail` and an SMTP server | specification, properties |
| `MailClientProofs` | – | theorems about it |
| `Base64` | `Char2Base64` | the algorithm, step by step, against RFC 4648 |
| `Base64Proofs` | – | theorems about it |
| `LpcBus` | the Super-I/O chip behind the ports (external) | state and accesses, used by the next |
| `Ring0` | `Ring0.cpp`, `InstDrv.cpp`, the service manager, the mutex | operations of each program, `DeviceOpens` |
| `LPCIO` | `LPCIO.cpp` and the constructors of the chips | detection, access by access, `DetectionSound` |
| `SuperIoUpdate` | `Update` of the three families | operations, `RightRegister`, `FanDivisors` |
| `Sensors` | the console and the dialog; composes the four | specification, properties |
| `SensorsProofs` | – | theorems about it |
| `ToasterMib` | `TestMIB.C` | the MIB as operators |
| `ToasterMibProofs` | – | what `Query` answers, for any varbinds |
| `SnmpNet` | command line, messages, screen | state shared by the next |
| `SnmpAgent` | `TestDll.C` inside the SNMP service | operations, `QueriesKept`, `TrapPerTrigger` |
| `SnmpUtil`, `WSnmpUtil` | the two manager programs | operations |
| `SubtreeWalk` | – | the abstract walk |
| `Snmp` | composes agent, network and managers | specification, properties, refinement of `SubtreeWalk` |
| `SnmpProofs` | – | theorems about it |
| `TrafficGrapher` | `ttg-snmp.cpp` and the device | specification, properties |
| `TrafficGrapherProofs` | – | theorems about it |
| `MCProcessMonitor`, `MCMailClient`, `MCBase64`, `MCSensors`, `MCSnmp`, `MCTraffic` | – | values of constants for TLC |

A definition whose comment starts with "Mutant" is a plausible bug: it shows that the properties notice it
and is never used by a specification.

### ProcessMonitor

`config` and `os` are the watched system; `procItems`, `gProcSize`, `ProcExist`, `aProcesses`, `param`
(`CallbackParam`) are the variables of the code; `handle` is the process handle `GetProcessName` holds open;
`pc` is where the thread is. `msgs` records the calls of `MsgFunc` in this scan, and `fresh`, `running`,
`unchanged`, `ran` record what the properties have to know of the scan (which processes ran throughout it, which did
not change, which names ran at all, whether the file could be read). One action is what the
thread does between two points at which it depends on the system: `ReadConfig`/`ReadConfigFails`,
`DismissMessageBox`, `BrowseProcesses`(`Fails`), `GetProcessName(p)` with the flag it sets, `EnumThreadList`(`Fails`),
`ThreadEnumFunc(d)`, `EnumThreadChildProc(t)`, `ChildrenDone`, `ThreadsDone`, `ProcessesDone`, one turn of
`IfAnyProcessExit`, `EndOfScan`, `Wake`. Between any two, `StartProcess`, `ExitProcess`, `ChangeWindows`
and `EditConfig` may happen. Abstractions:

- Names and captions are values; `PrefixOf` is the comparison `wcsncmp(p, s, wcslen(p)) == 0`. Names are lower-cased on
  both sides in the code and lower-cased already in the model.
- The order in which Windows enumerates processes, windows and children is any order; that it never comes back to one it
  has enumerated is assumed (`ScanEnds` rests on it).
- A pid whose process cannot be read has the name `<unknown>`, as in the code, and may even match an item.
- The window fields of an item are a set: only whether one of them matches is ever asked.
- A pid is not reused while a handle to it is open (a guarantee of Windows), which is what makes
  `WindowReportNamesOwner` true. Where `OpenProcess` fails there is no handle, and a pid may be reused.
- `start`, `cmd` and the other fields that are read and never used, the time stamp and wording of messages, and the
  length of the sleep are left out.

### ConfigReader

The reading of one `config.ini` after another, one action per line, with malformed lines: a header without a
type (`[]`, where `swscanf` returns 0, and `[`, where it returns EOF and the code goes on with what the uninitialized
buffer `type` holds), with a type that is a prefix of `process`, without a name; fields without a
value, where the code compares a buffer nothing has been read into – the model chooses any value. It refines
what `ProcessMonitor` does in the single step `ReadConfig`: `ItemsAsWritten` is the reason why that step may
say `procItems' = config`. `TimerAsWritten` states the one case in which a file does not determine the timer: a line `[` before any
header.

### MailClient

One action per `send` or `recv` of `SendMail`: `at` says which is next, `stage` which command it is about.
`Follow` is the order of the commands, `Expected` the codes `Logon` compares, `Examine` the early returns.
The variables `conn`, `inq`, `outq` are the connection, and `sess`, `delivered`, `refused`, `badData` the server, which is
external: it takes commands in order, may refuse any, answers EHLO in one or several lines, may close at any
moment, and may or may not forget a transaction whose DATA it refused. A `recv` takes any number of whole lines
that have arrived; a `recv` on a connection that is gone leaves the buffer. `SendFails` and `RecvGone`
happen only after the server closed. `ResolveFails` is the dereference of `gethostbyname`'s NULL.
The server has drained the connection of one mail before the next `SendMail` starts; sessions of two mails share no
state on either side except what `wsa` and `sockets` count. Left out: the date and subject of the header, the
attachments (`SendFileBody` runs over an empty list, because no caller adds a file), and reading past
the end of the receiver list.

### Base64

`Char2Base64` one source char at a time over signed chars, with the shifts and masks as integer arithmetic modulo
2^w. `RFC4648` is the reference.

### LpcBus, Ring0, LPCIO, SuperIoUpdate, Sensors

One specification in five layers, because all of it meets at the ports. `board` is the machine: its chip, on which pair of
ports it is, what its fans and temperatures are; which programs run with the right to manage services (`rights`) and which calls of the
system or the driver may be refused at any time (`fails`, of `Failures`); and, as bounds, how often each program is started, how many are killed and how
often firmware without the mutex moves the chip's address (`intrusions`). One step of a program is one port access, one call of the service manager
or one item of `Update`; `script` holds the accesses a program still has to make and `got` what they gave. Any other program, `Kill`
and the firmware may come between any two of them.

- `Ring0`: `service` is the entry and the driver; `handles` who has the device open. `StopWinIoDriver` takes effect when
  the last handle is gone; an entry that is deleted while the driver runs is marked and vanishes later, which is what a
  `CreateService` in between fails on. Every call on the way may fail and `Open` with it: `CreateFile`, the extraction of the driver's file,
  `OpenSCManager` (a program outside `Managers`), `CreateService`, `StartService`; what was done before it stays done. `Able` are the programs to
  which nothing of this can happen: `DeviceOpens` speaks of them only, since a program that may not manage services can use a driver that runs
  and nothing else. An abandoned mutex is acquired. `shared` records who has not been alone since `Open`.
- `LPCIO`: the keys of Winbond/Fintek, ITE and SMSC on both pairs of ports, each early return, the constructor of the chip found. The
  chip id is one value for both bytes; the chips stand for the families and for every special case the code makes of a model.
- `SuperIoUpdate`: item by item; what a voltage is worth is not kept, only whether the item is kept as a sensor and where its bytes came
  from. The 40 divisor bits are sets of positions; a shift of a 32-bit 1 by 32 or more is `"masked"` (the processor
  takes the count modulo 32) or `"lost"`, as the build decides. Writes behind `fans`, reads behind `ITE_TemperDescription`, the use of a
  wild `pSuperIO` and of an object that was not set up are recorded in `undef`; a program that has met one may crash or go on.
- `Sensors`: the console ends after `Refreshes` refreshes (2 for the code's 5 and 3: a refresh sees only what the
  one before left in the chip), the dialog when its user closes it. `address` are the programs that have found the northbridge of an AMD processor. `temps`
  holds for each core whose temperature is shown: `GetCPUTemp` may leave its element unset (`Unset`), which the callers do not notice – a machine register or
  the PCI configuration is refused, the value is not valid, the northbridge was not found, the processor is not known – and then the uninitialized value is shown.
  There is one chip; a counter has its value at once. A driver file that cannot be opened in `ExtractDriver`, where `CFile` throws, is not modelled: it ends
  the program, as `Kill` does.

### ToasterMib, SnmpNet, SnmpAgent, SnmpUtil, WSnmpUtil, SubtreeWalk, Snmp

Names are naturals in the order of the MIB: the tables and leaves of the toaster, the names between and before them, one behind
the agent's view (`Outside`) and one of another agent (`Foreign`). `requests` and `replies` are what is on its way. The service hands each request to
the agent, possibly a second time (managers retransmit), and polls `SnmpExtensionTrap` until it returns FALSE; it does not
answer GETBULK in version 1. A manager may give a request up; its response may still come. WinSNMP delivers only the first response to an id.
`requestCount` is kept modulo 3, which is all the code looks at.

- `SnmpUtil`: synchronous; one action per call of the management API.
- `WSnmpUtil`: `main` creates a request and pumps messages until `WM_SNMP_DONE`. `gVars.oid` is freed after every send but in a
  SUBTREE; memory that was freed may still hold the name or make `CreateVbl` fail (`WRefused`), both are modelled. Names are
  numeric, so that `SnmpStrToOid` succeeds; the fallback to `SnmpMgrStrToOid`, which leaves `startOid` unset in a SUBTREE, is not modelled.
- `Snmp!WalkImplemented` maps both programs to `SubtreeWalk`: the target is the part of the MIB the command line names,
  `seen` what has been printed of values, `ended` whether the program ended and whether a call had failed.

### TrafficGrapher

One action per request or statement that the handler of SIGINT can come between. The device counts while the program sleeps
and may be started again; `Wrap` (4 in the run) is the width of the counters, and a growth of `Wrap` or more in one interval cannot be seen. On Windows the
handler is a thread beside main, elsewhere main waits for it. `moved` and `grown` are the true growth, in the
sums and not yet in them. The sums themselves are naturals, the code's are `uint64_t`: that they do not wrap is assumed. `clean` says that nothing the program cannot know of has happened: no growth of `Wrap`, no
restart, no interrupt between the sums and `iterations++` (lines 260 to 304), no handler thread. At most one SIGINT;
`MaxRuns` bounds a measurement without a count.

## 3. Runs

| Run | Instance | Shows |
|---|---|---|
| `process_existence` | 3 pids, 2 of which fit into `aProcesses`; names with a common prefix, longer first; readable, half readable and unreadable processes; no windows; 1.0M states | `NotFoundSound`: nothing that runs is reported missing; `ExitReported`: what is missing is reported, also after scans that could not read the file; `TypeOK` |
| `process_windows` | 1 pid, 2 windows with 2 children each, items that ask for `hung` or not; 172k states | each hung process once (`HungOncePerScan`); a steady process exactly as it is (`SteadyWindowsReported`); the right name (`WindowReportNamesOwner`); `ScanEnds`; `AbsentIsReported` |
| `process_shadow` | one process, the shorter name first | violation, see 5 |
| `process_stale` | one process | violation, see 5 |
| `config` | files of up to 4 lines, read twice; 2.7M states | `ItemsAsWritten`, `TimerAsWritten` and the index `nCount - 1` of `TypeOK` |
| `mail` | 2 mails, receivers a, (too short), b, c; EHLO in up to 2 lines; 134k states | login before mail, no mutual wait, at most one copy, a refusal only hurts the refused, every call returns |
| `mail_success` | 1 mail, 1 receiver | violation, see 5 |
| `base64` | sources of up to 4 chars of 8, negative ones included; 27k states | the bytes written so far are those of RFC 4648 at every char; the whole is exact unless zeros are left |
| `base64_padding` | sources of up to 2 chars | violation, see 5 |
| `sensors` | 29 boards: every family and special case of a model; two programs side by side, one of them killed; one program killed and started again; fans of all speeds; firmware that moves the address; a user who may not manage services, and each call refused (`Refused`); 332k states | `DeviceOpens`: a program that is alone and is refused nothing can open the device whatever was left behind; `DetectionSound`: the right chip, left locked, also after a kill; `RightRegister`; `FanDivisors`, `FansSettle`: one step at a time, and at rest at last, register 0x47 left with zeros; `CoreTempsOwn`: whose temperature is shown for a core, and when none is; `KnownUndefined`: what it takes to meet undefined behaviour |
| `snmp` | 60 command lines of both programs, versions 1 and 2, with and without another agent behind this one, up to 2 requests given up or repeated, 6 requests of other managers; 199k states | `QueriesKept`, `TrapPerTrigger` of the agent; `AnswersBelong`; `SetReported`; `WalkImplemented` (refinement); `JobEnds`; `TrapsPrinted` |
| `traffic` | by index with a count of 1, 2 or none, two intervals, restarts, Windows or not; by name and listing, both versions, the view ending with the table or not; 161k states | `StatisticsSound`: the average is the true one, wrap-around included; `KnownMisuse`: what an interrupt can break; `RunEnds` |

**Why the bounds are enough.** With three pids and room for two, `EnumProcesses` returns any subset of the right
size, and a pid can exit, restart under another name and be unreadable while another is visited. Items interact only by
their names (prefixes) and by their flags; two of them give every order. Windows interact only inside one process
(`CallbackParam` is reset between processes), so one process with two windows, one of which matches by caption and one
by a child, shows all of what `HungReported` and `WinReported` can do. A line of `config.ini` sees only the section and
the last item: four lines make a section, a malformed header and fields on both sides of it, and the second
file shows what survives the first. In the mail client a receiver depends only on the session the one before left:
three receivers and an entry that is skipped give a first, a middle and a last one. Two lines suffice
for an answer that is split. The Base64 state has period three; four chars reach the second group. `MaxMails`,
`MaxLines`, `MaxReads`, `EhloLines` and `MaxLen` are bounds of the models; `MaxProcs` is the code's 1024.
In `sensors` two programs are enough for everything they share: the service is stopped, removed and created by one while the other is at any of
its own steps, and the mutex has a holder and a waiter. One kill leaves each possible remainder behind (service, mutex, chip), and the program that comes after it meets it.
Only the boards that differ in a branch of the code are there; each call that can be refused is refused on one of them, at some times and not at others. Fans turn until they are at rest, from both ends of the scale.
In `snmp` the walks begin before, in and behind a table and run over its end and the end of the view; two faults allow a request that is given up, its late
response and the request after it; the other managers' six requests raise the trap event twice. `MaxRequests` = 8 is more than any
walk of a tabled subtree needs. In `traffic`
`Wrap` = 4 with growths 0, 3 and 4 wraps the counter in one interval out of two; two intervals make a minimum that differs from the
maximum; the theorems of section 4 have no such bounds.

**Fairness.** `ProcessMonitor`: weak fairness of the thread's steps (`Monitor`) – it is an ordinary thread and the
steps block on nothing but mail, which returns (`MailReturns`); nothing is assumed of the user who must answer the
MessageBox, of the watched system or of the file. Strong fairness of `BrowseProcesses`: `EnumProcesses` does not fail in
every scan. `AbsentIsReported` names its remaining condition, that no MessageBox stays open. `MailClient`: weak
fairness of the client, and of `Serve` – a server that keeps a connection takes the commands on it. A server that is
connected and silent for ever does block `recv`, which has no timeout; `MailReturns` holds only because of this assumption.

`Sensors`: weak fairness of each program (`Runs`), which blocks on nothing for ever, because the wait for the mutex has a timeout; nothing of
kills, users and firmware. `Snmp`: the service takes requests (`WF_requests(Taken)`), the programs and their message pumps go on, responses and traps that were sent
arrive – but a request may be given up first (`job.faults`), which is what the retries of the libraries are for. `TrafficGrapher`: weak
fairness of main and of finish, since the library answers each request or reports a timeout; nothing of the user.

Deadlock is checked in every run of the monitor and the mail client (`Done` is the end of `MailClient`). `config` and `base64` switch the check off: the
readings are bounded, and a function ends. `sensors`, `snmp` and `traffic` switch it off, too: their programs end.

## 4. Proofs

| Theorem | Says | Rests on |
|---|---|---|
| `ProcessMonitorProofs!TypeCorrect` | `Spec => []TypeOK` | `ConstantsAssumption` |
| `ProcessMonitorProofs!NoFalseNotFound` | `Spec => []NotFoundSound` | `TypeOK`, `NotFoundInv` |
| `ProcessMonitorProofs!HungOnce` | `Spec => []HungOncePerScan` | `TypeOK`, `HungInv` |
| `ProcessMonitorProofs!OwnerNamed` | `Spec => WindowReportNamesOwner` | `TypeOK`, `OwnerInv` |
| `ProcessMonitorProofs!NothingForgotten` | `Spec => []ExitReported` | `TypeOK`, `ExitInv` |
| `ProcessMonitorProofs!SteadyReported` | `Spec => []SteadyWindowsReported` | `NotFoundInv`, `WindowsInv` |
| `ConfigReaderProofs!IndexInItems` | `Spec => []TypeOK` | `ConfigAssumption` |
| `ConfigReaderProofs!FileToItems` | `Spec => []ItemsAsWritten` | `FileInv` (`SectionInv`, `TypeInv`) |
| `ConfigReaderProofs!FileToTimer` | `Spec => []TimerAsWritten` | `FileInv` |
| `Base64Proofs!IndexInTable` | `Spec => []TypeOK` | `ByteAssumption` |
| `Base64Proofs!EncodedSoFar` | `Spec => []WrittenSoFar` | `EncodingInv` (`LeftInv`) |
| `Base64Proofs!EncodedExactly` | `Spec => []ExactUnlessZerosLeft` | `EncodingInv` |
| `MailClientProofs!MailTyped` | `Spec => []TypeOK` | `ReceiversAssumption`, `MailInv` |
| `MailClientProofs!PasswordFirst` | `Spec => []AuthBeforeMail` | `MailInv` |
| `MailClientProofs!NeverBothWait` | `Spec => []NoMutualWait` | `MailInv` |
| `MailClientProofs!OthersGetTheirs` | `Spec => []RefusedAlone` | `MailInv`, `RecordInv` |
| `MailClientProofs!NoSecondCopy` | `Distinct /\ Spec => []OneCopyEach` | `MailInv`, `RecordInv`, `CopyInv` |
| `ToasterMibProofs!PromiseKept` | any `Query(action, vbs, stor)` satisfies `QueryPromise` | – |
| `SnmpProofs!TrapsCounted` | `Spec => []TrapPerTrigger` | `TrapInv` |
| `SnmpProofs!SnmpTypeCorrect` | `Spec => []SnmpTypeOK` | `NetAssumption`, `SnmpTyped`, `TrapInv` |
| `SnmpProofs!QueriesAnswered` | `Spec => []QueriesKept` | `SnmpTyped`, `PromiseKept` |
| `SnmpProofs!AnswersPrinted` | `Spec => []AnswersBelong` | `ReadInv` (`OnceInv`, `AnswersInv`) |
| `SnmpProofs!SetTold` | `Spec => []SetReported` | `ReadInv`, `ToldInv` |
| `SnmpProofs!WalkRefined` | `Spec => WalkImplemented`, the refinement | `ReadInv`, `WalkInv` |
| `SensorsProofs!DeviceOpened` | `Spec => []DeviceOpens` | `ProgramsAssumption`, `SharedInv` (`DeviceInv`, `MutexInv`) |
| `SensorsProofs!PortsAreExclusive` | `Spec => []PortsExclusive` | `DeviceInv`, `MutexInv` |
| `SensorsProofs!CoreTempsAreOwn` | `Spec => []CoreTempsOwn` | `BoardsAssumption`, `SharedInv`, `CoresInv`, `AddressInv` |
| `SensorsProofs!SensorsTypeCorrect` | `Spec => []SensorsTypeOK` | `BoardsAssumption`, `RefreshesAssumption`, `SharedInv`, `CoresInv`, `AddressInv`, `TypeInv` |
| `SensorsProofs!RegistersRight` | `Spec => []RightRegister` | `FamiliesAssumption`, `SharedInv`, `TypeInv`, `ChipInv` |
| `SensorsProofs!UndefinedKnown` | `Spec => []KnownUndefined` | the same |
| `SensorsProofs!ChipFound` | `Spec => []DetectionSound` | `FamiliesAssumption`, `MonitorAssumption`, `SharedInv`, `TypeInv`, `ChipInv`, `ProbeInv` |
| `TrafficGrapherProofs!RoundsBounded` | `Spec => []TrafficTypeOK` | `TrafficAssumption` |
| `TrafficGrapherProofs!MisuseKnown` | `Spec => []KnownMisuse` | `SafeInv` |
| `TrafficGrapherProofs!StatisticsTrue` | `Spec => []StatisticsSound` | `SafeInv`, `SampledInv`, `SumsInv`, `ReportInv` |

`ConstantsAssumption` says that the constants have their types, that configurations are sequences of items and that the
special values are not ordinary ones. No assumption is made about `PrefixOf` – the theorems hold for any comparison.

- `NotFoundSound` is not inductive: it speaks of messages, which are sent long after the flag was set.
  `NotFoundInv` adds that a process of `running` is alive and either has not been visited yet (`aProcesses`) or its
  item's flag is set, that no process is left to be visited while items are reported, and that nothing has been said
  when a scan begins.
- `HungOncePerScan`: `HungInv` says that a pid that was reported hung is not one that will be visited again, and is the
  one in `param` only with `HungReported` set.
- `WindowReportNamesOwner`: `OwnerInv` says that while `param` has a name other than `<unknown>`, either the handle is
  open on its pid, so that the pid is not reused, or nothing is being checked.
- `ExitReported` speaks of a scan that is over. `ExitInv` adds that a flag that is set has a reason (`FlagsHaveReason`: a name that ran
  in this scan and belongs to the item) and that of the items before `exitIdx` each one whose flag is not set has its message (`ReportedSoFar`).
- `SteadyWindowsReported`: `WindowsInv` says of each process that has not changed what has been said of it so far: nothing while it is still to
  be visited (`WaitingInv`), while it is checked exactly what the windows and children already enumerated give (`CheckedInv`, with the windows
  that are left), and everything once it has been (`FinishedInv`); `CallbackInv` ties `HungReported` and `WinReported` to the window in work.
- Base64's `TypeOK` (with sequence types, `TypeInv`) says which bits of `n` are free at each position, so that every index is in 0..63, negative chars included.
- `WrittenSoFar` and `ExactUnlessZerosLeft`: the symbol written next depends on what is left of the byte before, and `LeftInv` says which bits of it
  `n` holds. `CutAs` and `TurnAt` relate one turn of the loop to the four symbols that RFC 4648 cuts a group of three bytes into; that the masks after
  the arithmetic shifts give the bits of the byte and not of the signed char is `SignMasked`.
- `ItemsAsWritten` and `TimerAsWritten` speak of a whole file, by the numbers of its lines: item j is what the section of the j-th process header
  describes. Each line read makes the file one line longer (`Longer`); the sections of the lines before stay what they were, and the line belongs to the
  section of the last header that begins one. `SectionInv` says that this is the section the loop is in – or, while no header has begun one, that
  it is not that of a process, and known at all only after a header without a type. `TypeInv` says that the buffer `type` holds what the last header with
  a type left in it. The number of lines and reads, the names and the values are any.
- `MailClient`: none of the first three is inductive by itself. `QueueInv` says that what the server has not taken yet are commands in the order of
  `SendMail` (`Follows`), the last of which is the one the client is about; `DataInv` that a server that has accepted DATA finds the text
  of the mail next – otherwise it would swallow a command the client waits for an answer to; `AuthInv` that before the server has accepted the password
  neither the buffer nor the lines under way hold a 235, and that after it no command of the login is left. The list of
  receivers, the number of mails and the length of the EHLO answer are any. `ReceiversAssumption` gives the constants their types, no more:
  receivers may repeat.
- `RefusedAlone` compares the list with what the server keeps. `RecordInv` follows each receiver: one whose RCPT was sent is on the way, in
  the envelope, or settled, that is, has a copy or was refused (`SentInv`); one in the envelope whose DATA was not refused is the one whose DATA or
  text comes next, and the text comes with his name (`DueInv`); the queue holds the commands of one receiver after those of another
  (`OrderInv`). At the end nothing comes next, so everyone is settled.
- `OneCopyEach` is proved for lists in which nobody is twice (`Distinct`, the hypothesis of the theorem; someone who is twice gets two mails). `CopyInv` adds
  that a receiver is not asked for yet, on the way, in the envelope, or has his copy, and no two of these.
- `KnownMisuse` speaks of what has happened; `SessionInv` says who can have closed the session (finish called by main, the handler, or main
  on its way out), and that finish called by the loop comes after a second sample, so that its divisor is not 0.
- `StatisticsSound` compares what was printed with the true growth of the device. `SampledInv`: at each statement of the round, the
  device's counter is what was last read plus what it grew since, modulo `Wrap`, so that the unsigned difference is that
  growth. `SumsInv`: the sums of n rates lie between n times the minimum and n times the maximum; at the statement `extremes` this holds of
  the sums without the last rate. `ReportInv`: what finish has printed is what the variables say, because with a `clean` history main
  stands still under it. The quotients are compared with lemmas on `\div` (`QuotientAtLeast`, `QuotientAtMost`, `QuotientMonotone`).
  `Wrap`, the growths, the interval, the count and the table are any.

`TrafficAssumption` says that the constants have their types (`JobType`: interval and count at least 1, as `main` checks) and
that growths are at most `Wrap`.

- `PromiseKept` is about the agent's table alone. `Query` is a recursive function over the varbinds; the theorem compares it with what
  `QueryPromise` says without recursion: the error index is the first varbind that is not good, the answers are those of the storage
  as the writes before them have left it, and a variable holds the last value written before the error.
- `TrapInv`: `requestCount` is the number of calls modulo 3, and a trigger is pending (`trapEvent`), being reported (between the two calls of
  `SnmpExtensionTrap`) or reported. Two triggers in one polling interval give one trap, which is why the property is an inequality.
- `SnmpTyped` says that every storage, request, reply and message is well formed, for whatever is written by whom. With it
  `QueriesKept` follows from `PromiseKept`.
- `AnswersBelong`: `OnceInv` says that an id in the queue or already printed is not waiting any more and is there only once; `AnswersInv` that what was printed answers the names asked, in
  their order. A late or repeated response has an id nobody waits for. GETBULK is excluded in `OnceInv` as in the property: its
  responses have as many varbinds as the sum of the repetitions, which takes induction over the varbinds.
- `SetReported`: the agent chooses the type of the SET by what the GET before it said. `ToldInv` names that one value (`Written1`), says that every
  SET under way and every response to one is of it (`SetOf`), that before the second request, and if the value is not good, the storage is as it was, and
  that a noError looked at as the last response, which is the one to the SET, means that the variable has the value; `SetCounts` says how far
  the two calls are.
- `WalkImplemented`: `WalkInv` names the position x of the walk and the number k of varbinds printed. `UpTo(Target, x, k)` says that the
  names up to x are exactly the first k of `Target`, `Walked` that these were printed and, after them, only varbinds without a value; `WalkAsk` that
  requests under way ask for a name not beyond x, and the one waited for asks for x itself; `WalkAnswer` that every response is the agent's
  answer to such a request. Each step of the programs is then a step `ShowNext`, `Complete`, `GiveUp` of `SubtreeWalk` or a stutter. Without
  the part about late responses the invariant is not inductive: one of them could be printed for the wrong place.
- `DeviceOpens`: `DeviceInv` gives for each place of a program of `Able` that is alone the state of the service that will let it go on (`Fit`) and
  for each pair of places of two such programs what they may find (`Beside`): that the one will succeed if the other has failed. A program
  outside of `Able` changes the service, too (`DeviceUnable`): it may stop and delete it and then fail; but a program that meets it is in `shared`, and if one
  may not manage services or a call is refused, nothing is said of pairs. It is about two programs
  (`ProgramsAssumption`), which is what there is: the console and the dialog.
- `MutexInv`: a program in detection or in an update owns the mutex, and only such a program has a script. `CoresInv`: between
  selecting and reading, the core selected is the next one, or the program is in `shared`; each temperature shown is one of those `CoreTempsOwn` allows.
  That an AMD processor whose reads are not refused is never shown unset takes `AddressInv`: past `InitCPUSenor` the northbridge has been found.
- `TypeInv`: each script is a sequence of accesses to ports that exist with bytes (`OpSeq`), the items still to be read and those kept are no more
  than 30 together, divisors are written as bytes.
- `RightRegister` and `KnownUndefined`: `ChipInv` says for the program that holds the mutex where the chip is. On a Winbond chip, each input of the script
  is preceded by the accesses that select its bank and register, or, for the first inputs, bank and address are already there (`Aimed836`; `Aimed718`
  without banks). On an ITE chip the address may be moved at any time; `Got87` says that a byte whose address was read back as
  the right one is right – true because no register read is at 1, where the firmware leaves the address. Objects fit the chip's family
  (`ObjectOK`), for which the id that was read is followed through detection (`IdRead`), the vendor id is Winbond's if it is there and nothing
  has disturbed it (`VendorAt`), and a count being read is that of its fan (`CountRead`): a fan that stands still gives 255, so that fans 4 and 5 of a THF
  chip are kept only when they turn. The number of kills and intrusions, the fans and temperatures of the boards are any.
- `DetectionSound`: `ProbeInv` says what each access of the detection has left in the chip: how many keys it has seen, which register and device are
  selected, which bytes the program got. On the ports of the chip (`Here`) this is said by the number of accesses the script still has (`StageOK`), for each of the
  three kinds of chip and the keys of every family that are tried on it; on the other ports (`Nowhere`) every byte is "none". `RuledOut` is what the
  place of the program says of the board: a program that is past the keys of Winbond has found no chip of that family. A program that was killed leaves the
  chip anywhere, even unlocked, which is why the probing for an id may begin with any number of keys seen; the first key that is out of order, or the
  one that ends the configuration mode, brings it back. On the second ports the keys of ITE are not tried at all (`Untouched`). The number of kills is any.
  Only the program with the mutex accesses the chip's configuration, so that no other one disturbs a detection.

The assumptions on constants give types and what the code implies: `NetAssumption` that a command line has an operation its program knows and,
but for `trap`, a name; `BoardsAssumption` the types of a board; `FamiliesAssumption` that a chip with an id the code knows is of the family that makes it, and that
a base address reads as good, bad or zero; `MonitorAssumption` that the monitor of a chip the code knows is the logical device that
`HARDWARE_MONITOR_LDN` names for it (LPCIO.h:49-53 gives the numbers), and that no id is what a port gives that nothing answers at; `ConfigAssumption` that `None` is no value;
`ProgramsAssumption` and `RefreshesAssumption` the two programs and at least one refresh.

Only model-checked: liveness (`ScanEnds`, `AbsentIsReported`, `MailReturns`, `FansSettle`, `JobEnds`, `TrapsPrinted`, `RunEnds`), which the prover cannot
express under fairness, and one invariant, `FanDivisors`, which is about the bits of a word, shifted and masked: its induction over the
fans of a refresh, with shifts of subsets of 0..39, has not been carried out.

## 5. Findings

1. `process_shadow` (monitor.cpp:325): `FindProecss` takes the first item of which the configured name is a prefix. With the
   item `app` before `app2`, a running `app2` counts for `app`, and `app2` is reported as not existing.
2. `process_stale` (monitor.cpp:91): if `config.ini` cannot be opened, `ReadConfig` returns before it clears the flags, and
   `MonitorFunc` scans on: a process that has exited is taken for running.
3. `mail_success` (sendmail.cpp:376): answers after the login are ignored, so `SendMail` returns true for a refused mail
   and the program prints "E-mail test success".
4. `base64_padding` (sendmail.cpp:66): the last symbol is left out when the bits left over are all zero, so
   some user names and passwords are encoded with a symbol too few.

What the passing runs say of the code beside what they were asked; their properties name each as an exception:

5. `FanDivisors` (W836XX.CPP:106): the divisors are in 40 bits, `newBits` has 32. Fans 1 and 2, whose bits are above
   31, get a wrong divisor, and register 0x47 is written with zeros.
6. `KnownUndefined`: THF boards with a fourth or fifth fan write behind `fans` (W836XX.h:184), ITE boards with more than three
   temperatures read behind `ITE_TemperDescription` (IT87XX.CPP:118); the first also happens without such a fan, when firmware has moved the address and
   another byte is taken for its count; a Winbond chip with another vendor id is used without
   having been set up (W836XX.h:122); a dialog that could not open the driver follows an uninitialized `pSuperIO` (LPCIO.cpp:411) – beside another program, but
  also alone, for a user who may not manage services (InstDrv.cpp:27) or when a call is refused. `CoreTempsOwn`: the result of `GetCPUTemp` is ignored
  (SensorsInfo.cpp:29, SensorsTestDlg.cpp:324), and where it fails an uninitialized temperature is shown.
7. `DeviceOpens` (Ring0.cpp:172): `Close` stops the driver under another program that uses it. That one goes on with its handle, but a
   third program that starts in the meantime cannot open the device.
8. `SetReported` (WSnmpUtil.Cpp:209): "Succeeded" is also said of a SET that was not sent or not answered, and of one after which a
   late response to the GET before came.
9. `JobEnds` (WSnmpUtil.Cpp:173): with version 2, a SUBTREE that reaches to the end of the view never ends; `RunEnds`
   (ttg-snmp.cpp:493): neither does the list, or the search for an interface that is not there, over a v2c view that ends with ifDescr.
10. `KnownMisuse` (ttg-snmp.cpp:552): an interrupt after the first sample divides by zero; one while main closes the session closes it twice.
11. `StatisticsSound` (ttg-snmp.cpp:260-304): an interrupt after the sums and before `iterations++` makes the average too large.

## 6. Plan

Done: `ProcessMonitor`, `ConfigReader`, `MailClient`, `Base64`, the sensor library with two of its programs, the SNMP tools and
agent, the traffic grapher; one refinement (`SubtreeWalk`); the theorems of section 4.

Left, in the order of what matters to the program:

1. Theorems: `FanDivisors` of `Sensors`, with lemmas about shifts of sets of positions.
2. Refinements: what a scan promises, by `ProcessMonitor`; `ReadConfig` of `ProcessMonitor`, by `ConfigReader`.
3. `MonitorMail`: the monitor with the mail client in place of a message.
4. The substitution of message parameters in `EventLog.cpp`, which does not advance past a `%` that no digit follows (line 438).

## 7. Not modelled

- `SmartReader.cpp`: one pass of ioctls over the drives and a table that is decoded; nothing runs beside it and its results
  are read after it. A property would repeat its loop.
- `EventLog.cpp`, `GetEventLog.cpp`: one thread that reads records and formats them, text by text; see the plan for the one loop with an interesting end.
- `sysinfo.cpp`, `process_stat.cpp`, `GetSysInfo.cpp`: single queries that are formatted and returned; their sensor part is the code
  of `SensorsInfo.cpp`, which `Sensors` models.
- Attachments and the bytes of the receiver list in `sendmail.cpp`; `email.ini` and the console input of `MonitorZSoftWare.cpp`.
- `kbprint`, the abbreviations of interface names, the printing of SNMP values by type and textual names; `snmp/ttg/ttg.c`
  is a copy of the traffic grapher.
- `Monitor.cpp` (an earlier version of the process monitor, without mails), the MFC skeletons, the empty projects, the net-snmp headers
  (vendored), the C# files beside the chips (not built), and the copies of the sensor library in `SensorsInfo` and `SensorsTest`.
