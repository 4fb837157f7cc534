--------------------------- MODULE ChannelHopper ---------------------------
(***************************************************************************)
(* kismet_hopper (src/kismet_hopper.cc): the process that reads packet     *)
(* source lines from the command line or kismet.conf, picks the sources to *)
(* hop, optionally divides the channel rotation between them, and then     *)
(* loops forever handing each source the next channel of its list.         *)
(*                                                                         *)
(* Data is abstracted: a source line is a record [type, name, host,        *)
(* fields] (card type, source name, whether the interface has a host part  *)
(* before ':', and how many comma-separated fields the line has); source   *)
(* names are model values.  A channel list is a sequence that ends with    *)
(* the -1 sentinel, indexed from 0 as in the C code; chanlist identity     *)
(* (the pointer comparison at lines 573 and 589) is the tag "b" or "a".    *)
(* Shell commands are not built: a hop records the channel handed to the   *)
(* hop function and whether it had a command template.                     *)
(***************************************************************************)
EXTENDS Integers, Sequences, FiniteSets, SequencesExt

CONSTANTS
    Invocations,  \* the command lines and config files the hopper may get
    MaxSources,   \* bound on the number of source lines of an invocation
    HopChannels,  \* every channel number a list of an invocation holds
    ConfFiles,    \* the config files on the machine: name -> lines
    MaxOpen       \* nesting of config files at which fopen or the stack gives out

ASSUME MaxSources \in Nat \ {0}

VARIABLES
    inv,        \* the invocation (argv and kismet.conf), fixed
    pc,         \* where main is: "configure" .. "hop", or how it ended
    bList,      \* bchanlist, with its -1 sentinel
    aList,      \* achanlist
    srcs,       \* packet_sources: the tokenized source lines
    enableMap,  \* enable_name_map: name -> 0 (asked for) | 1 (found)
    st,         \* per source: [func, tmpl, list, pos]
    divisions,
    adivisions,
    cur,        \* the src index of the loop main is in
    statime,
    killfile,   \* /tmp/kismet_hopper.control exists
    lastHop,    \* auxiliary: the last call of a hop function
    cfStack,    \* conf->ParseConfig: the config files being read
    configMap,  \* conf->config_map
    cfResult    \* what ParseConfig returned, or "running"

vars == <<inv, pc, bList, aList, srcs, enableMap, st, divisions, adivisions,
          cur, statime, killfile, lastHop, cfStack, configMap, cfResult>>

\* The ConfigFile object of main, reading the invocation's file system.
Cf == INSTANCE ConfigFile WITH Files <- ConfFiles,
        stack <- cfStack, config_map <- configMap, result <- cfResult

\* How main can end: exit(), CatchShutdown, a fault, or a read past the end
\* of a channel array, after which the model does not follow the process.
Stopped == {"exit0", "exit1", "shutdown", "crash", "sigfpe", "undefined"}

NoHop == [src |-> 0, chan |-> 0, tmpl |-> TRUE]

us_channels        == <<1, 6, 11, 2, 7, 3, 8, 4, 9, 5, 10, -1>>
intl_channels      == <<1, 7, 13, 2, 8, 3, 14, 9, 4, 10, 5, 11, 6, 12, -1>>
us_80211a_channels == <<36, 40, 44, 48, 52, 56, 60, 64, -1>>

(***************************************************************************)
(* parse_hopseq: the comma-separated tokens of -s / -S, with `scans` FALSE *)
(* when one of them is not read by sscanf "%d": that makes the hopper      *)
(* exit(1), shown by the empty result; otherwise -1 is appended.           *)
(***************************************************************************)
parse_hopseq(tokens, scans) == IF scans THEN tokens \o <<-1>> ELSE <<>>

\* The entry chanlist[i] of a list (0-based).  Past the array's end the
\* read is undefined; Garbage stands for whatever it returns.
Garbage == -1000
InArray(list, i) == i + 1 \in DOMAIN list
At(list, i) == IF InArray(list, i) THEN list[i + 1] ELSE Garbage

\* The entries a rotation visits: those before the first -1.
NChannels(list) == SelectInSeq(list, LAMBDA c : c = -1)
Rotation(list)  == {list[k] : k \in 1 .. NChannels(list) - 1}

ListOf(tag) == IF tag = "b" THEN bList ELSE aList

\* The channel list the options select: opt.kind is "default", "intl" (-n)
\* or "custom" (-s / -S with opt.tokens, opt.scans); the last of -n and -s
\* wins.
OptList(opt, dflt) ==
    CASE opt.kind = "default" -> dflt
      [] opt.kind = "intl"    -> intl_channels
      [] OTHER                -> parse_hopseq(opt.tokens, opt.scans)

source_from_cmd == inv.cmdSources # <<>>
enable_from_cmd == inv.cmdEnable # <<>>

\* FetchOpt("enablesources"): the first enablesources line, its names split
\* at ','; an absent line is the empty string, no names.
ConfEnable ==
    IF Cf!FetchOptVec("enablesources") = <<>> THEN <<>> ELSE Cf!FetchOpt("enablesources")

\* named_sources: -C, or else the enablesources line of the config file.
NamedSources == IF enable_from_cmd THEN inv.cmdEnable ELSE ConfEnable

\* Mutant: the enable list applies only when no -c line was given.
EnableFilterIgnoresCmd == ~source_from_cmd /\ NamedSources # <<>>

\* The enable filter applies (lines 363 and 429).
EnableFilter ==
    (~source_from_cmd \/ enable_from_cmd) /\ NamedSources # <<>>

\* source_input_vec: -c lines, or else the config file's source lines.
SourceInput == IF source_from_cmd THEN inv.cmdSources ELSE Cf!FetchOptVec("source")

\* Lines 315-316: a value is never empty (line 60), so FetchOpt(k) != ""
\* is a line with key k.
OldOptions == \E k \in {"cardtype", "captype", "capinterface"} : Cf!FetchOpt(k) # ""

Init ==
    /\ inv \in Invocations
    /\ pc = "configure"
    /\ bList = <<>> /\ aList = <<>>
    /\ srcs = <<>>
    /\ enableMap = <<>>
    /\ st = <<>>
    /\ divisions = 0 /\ adivisions = 0
    /\ cur = 1
    /\ statime = 0
    /\ killfile = FALSE
    /\ lastHop = NoHop
    /\ Cf!Init(inv.configfile)

\* Line 310: conf->ParseConfig(configfile), one line or one file at a time.
ParseConfig ==
    /\ pc = "configure"
    /\ Cf!Next
    /\ pc' = IF cfResult' = "crash" THEN "crash" ELSE pc
    /\ UNCHANGED <<inv, bList, aList, srcs, enableMap, st, divisions, adivisions,
                   cur, statime, killfile, lastHop>>

(***************************************************************************)
(* main up to the dispatch loop: the option loop (bchanlist, achanlist),   *)
(* ParseConfig, the old-option test, enable_name_map and the tokenizing of *)
(* source_input_vec.  Every fatal error of these lines is an exit(1).      *)
(***************************************************************************)
Configure ==
    LET b == OptList(inv.hopseq, us_channels)
        a == OptList(inv.hopseqA, us_80211a_channels)
        fatal == \/ b = <<>> \/ a = <<>>
                 \/ cfResult = "fail" \/ OldOptions
                 \/ SourceInput = <<>>
                 \/ \E i \in DOMAIN SourceInput : SourceInput[i].fields < 3
    IN /\ pc = "configure"
       /\ cfResult \in {"ok", "fail"}
       /\ IF fatal
          THEN /\ pc' = "exit1"
               /\ UNCHANGED <<bList, aList, srcs, enableMap, st>>
          ELSE /\ pc' = "dispatch"
               /\ bList' = b /\ aList' = a
               /\ srcs' = SourceInput
               /\ enableMap' = IF EnableFilter
                               THEN [n \in ToSet(NamedSources) |-> 0]
                               ELSE <<>>
               /\ st' = [i \in DOMAIN SourceInput |->
                           [func |-> "none", tmpl |-> FALSE, list |-> "b", pos |-> 0]]
       /\ UNCHANGED <<inv, cfStack, configMap, cfResult, divisions, adivisions, cur, statime, killfile, lastHop>>

\* enable_name_map[name] = 1, adding the key if it is absent.
MarkFound(m, n) == [k \in DOMAIN m \cup {n} |-> IF k = n THEN 1 ELSE m[k]]

HopTypes  == {"prism2", "prism2_legacy", "prism2_bsd", "prism2_hostap", "prism2_avs"}
QuietTypes == {"cisco", "cisco_bsd", "cisco_cvs", "drone", "wtapfile"}

(***************************************************************************)
(* One iteration of the dispatch loop over packet_sources.  A source the   *)
(* enable filter leaves out keeps func NULL.  Every other source gets      *)
(* func = defaulthopper before its card type is looked at; cisco, drone,   *)
(* wtapfile and wsp100 sources then keep a NULL command template.  The     *)
(* wsp100 test "source_input_vec.size() == 1" reads the vector after it    *)
(* was cleared (line 419), so its size there is 0.                         *)
(***************************************************************************)
DispatchSource ==
    LET s    == srcs[cur]
        next == IF cur = Len(srcs) THEN "check" ELSE "dispatch"
        Set(f, t, l) == st' = [st EXCEPT ![cur] = [@ EXCEPT !.func = f,
                                                      !.tmpl = t, !.list = l]]
        source_input_vec_size == 0
    IN /\ pc = "dispatch"
       /\ cur' = IF cur = Len(srcs) THEN 1 ELSE cur + 1
       /\ IF EnableFilter /\ s.name \notin DOMAIN enableMap
          THEN /\ pc' = next
               /\ UNCHANGED <<enableMap, st, divisions, adivisions>>
          ELSE
          /\ enableMap' = MarkFound(enableMap, s.name)
          /\ \/ /\ s.type \in QuietTypes
                /\ IF Len(srcs) = 1
                   THEN pc' = "exit1" /\ UNCHANGED st
                   ELSE pc' = next /\ Set("default", FALSE, "b")
                /\ UNCHANGED <<divisions, adivisions>>
             \/ /\ s.type \in HopTypes \cup {"orinoco"}
                /\ pc' = next
                /\ Set(IF s.type = "orinoco" THEN "orinoco" ELSE "default", TRUE, "b")
                /\ divisions' = divisions + 1
                /\ UNCHANGED adivisions
             \/ /\ s.type = "ar5k"
                /\ pc' = next
                /\ Set("default", TRUE, "a")
                /\ adivisions' = adivisions + 1
                /\ UNCHANGED divisions
             \/ /\ s.type = "wsp100"
                /\ pc' = CASE ~s.host                    -> "exit0"
                           [] source_input_vec_size = 1 -> "exit0"
                           [] OTHER                      -> next
                /\ Set("default", FALSE, "b")
                /\ UNCHANGED <<divisions, adivisions>>
             \/ /\ s.type \notin QuietTypes \cup HopTypes \cup {"orinoco", "ar5k", "wsp100"}
                /\ pc' = "exit1"
                /\ UNCHANGED <<st, divisions, adivisions>>
       /\ UNCHANGED <<inv, cfStack, configMap, cfResult, bList, aList, srcs, statime, killfile, lastHop>>

(***************************************************************************)
(* Lines 531-558: every name of the enable list must have been found, and *)
(* the pid file must be writable; then the signal handlers are installed.  *)
(***************************************************************************)
CheckEnabled ==
    /\ pc = "check"
    /\ \/ /\ \/ DOMAIN enableMap = {}
             \/ \E n \in DOMAIN enableMap : enableMap[n] = 0
          /\ pc' = "exit1"
       \/ /\ DOMAIN enableMap # {}
          /\ \A n \in DOMAIN enableMap : enableMap[n] = 1
          /\ pc' \in {"divide", "exit1"}        \* fopen(pidpath) may fail
    /\ UNCHANGED <<inv, cfStack, configMap, cfResult, bList, aList, srcs, enableMap, st, divisions, adivisions,
                   cur, statime, killfile, lastHop>>

\* Mutant: the terminator test looks one entry too far ahead.
NextPosEarly(list, pos) == IF At(list, pos + 2) = -1 THEN 0 ELSE pos + 1

\* Lines 626-628: chanpos++, back to 0 when the next entry is the sentinel.
NextPos(list, pos) == IF At(list, pos + 1) = -1 THEN 0 ELSE pos + 1

\* Mutant: the stat() result tested the wrong way round.
KillfileSeenInverted(t, k) == t > 5 /\ ~k

\* Lines 605-610: the kill file is looked for on the seventh pass.
KillfileSeen(t, k) == t > 5 /\ k

\* The rank of source i among the earlier hopping sources on list tag.
Rank(i, tag) ==
    Cardinality({j \in 1 .. i - 1 : st[j].func # "none" /\ st[j].list = tag})

(***************************************************************************)
(* Lines 565-595: with -d, each hopping source on a list starts at         *)
(* (nchannels / divisions) * its rank.  nchannels counts the -1 sentinel   *)
(* too, and the 802.11a block divides by divisions (the 802.11b count), so *)
(* it faults when there is no 802.11b source.                              *)
(***************************************************************************)
DivideChannels ==
    LET DoB == inv.divide /\ divisions > 1
        DoA == inv.divide /\ adivisions > 1
        Start(i, tag, n) ==
            IF st[i].func # "none" /\ st[i].list = tag
            THEN (NChannels(ListOf(tag)) \div n) * Rank(i, tag)
            ELSE st[i].pos
        stB == IF DoB THEN [i \in DOMAIN st |-> [st[i] EXCEPT !.pos = Start(i, "b", divisions)]]
               ELSE st
    IN /\ pc = "divide"
       /\ IF DoA /\ divisions = 0
          THEN pc' = "sigfpe" /\ UNCHANGED st
          ELSE /\ pc' = "round"
               /\ st' = IF DoA
                        THEN [i \in DOMAIN stB |-> [stB[i] EXCEPT !.pos = Start(i, "a", divisions)]]
                        ELSE stB
       /\ UNCHANGED <<inv, cfStack, configMap, cfResult, bList, aList, srcs, enableMap, divisions, adivisions,
                      cur, statime, killfile, lastHop>>

\* Mutant: statime is never set back to 0.
RoundStartNoReset ==
    /\ pc = "round"
    /\ statime' = statime + 1
    /\ pc' = IF KillfileSeen(statime, killfile) THEN "shutdown" ELSE "hop"
    /\ cur' = 1
    /\ UNCHANGED <<inv, cfStack, configMap, cfResult, bList, aList, srcs, enableMap, st, divisions, adivisions,
                   killfile, lastHop>>

(***************************************************************************)
(* The head of the hop loop: every seventh pass (statime++ > 5) looks for  *)
(* the kill file and calls CatchShutdown when it exists.                   *)
(***************************************************************************)
RoundStart ==
    /\ pc = "round"
    /\ statime' = IF statime > 5 THEN 0 ELSE statime + 1
    /\ pc' = IF KillfileSeen(statime, killfile) THEN "shutdown" ELSE "hop"
    /\ cur' = 1
    /\ UNCHANGED <<inv, cfStack, configMap, cfResult, bList, aList, srcs, enableMap, st, divisions, adivisions,
                   killfile, lastHop>>

(***************************************************************************)
(* The pc a call of the source's hop function can leave: defaulthopper     *)
(* formats cmd_template with snprintf, which faults on a NULL template,    *)
(* and calls CatchShutdown when system() fails; orinocohopper (private     *)
(* ioctl, or defaulthopper without wireless extensions) ends the same way  *)
(* when the socket or the ioctl fails.                                     *)
(***************************************************************************)
HopCall(c) ==
    IF c.func = "default" /\ ~c.tmpl THEN {"crash"} ELSE {"hop", "shutdown"}

(***************************************************************************)
(* One pass of the inner loop (lines 616-629).  A source with func NULL is *)
(* skipped.  Otherwise func is called with chanlist[chanpos]: defaulthopper *)
(* with a NULL template hands snprintf a NULL format and faults; a failing *)
(* system() or orinoco ioctl ends in CatchShutdown.  Then chanpos++ and    *)
(* back to 0 when the next entry is the -1 sentinel.                       *)
(***************************************************************************)
HopSource ==
    LET c    == st[cur]
        chan == At(ListOf(c.list), c.pos)
    IN /\ pc = "hop"
       /\ cur <= Len(srcs)
       /\ cur' = cur + 1
       /\ IF c.func = "none"
          THEN UNCHANGED <<pc, st, lastHop>>
          ELSE /\ lastHop' = [src |-> cur, chan |-> chan, tmpl |-> c.tmpl]
               /\ CASE ~InArray(ListOf(c.list), c.pos)     -> pc' = "undefined"
                    [] HopCall(c) = {"crash"}                -> pc' = "crash"
                    [] ~InArray(ListOf(c.list), c.pos + 1) -> pc' \in {"undefined", "shutdown"}
                    [] OTHER                                 -> pc' \in HopCall(c)
               /\ st' = [st EXCEPT ![cur].pos = NextPos(ListOf(c.list), c.pos)]
       /\ UNCHANGED <<inv, cfStack, configMap, cfResult, bList, aList, srcs, enableMap, divisions, adivisions,
                      statime, killfile>>

\* usleep(interval) at the end of a pass.
Sleep ==
    /\ pc = "hop"
    /\ cur > Len(srcs)
    /\ pc' = "round"
    /\ UNCHANGED <<inv, cfStack, configMap, cfResult, bList, aList, srcs, enableMap, st, divisions, adivisions,
                   cur, statime, killfile, lastHop>>

(***************************************************************************)
(* The environment: someone creates the kill file, or sends SIGINT,        *)
(* SIGTERM or SIGHUP once the handlers are installed (CatchShutdown).      *)
(***************************************************************************)
CreateKillfile ==
    /\ pc \notin Stopped
    /\ ~killfile
    /\ killfile' = TRUE
    /\ UNCHANGED <<inv, cfStack, configMap, cfResult, pc, bList, aList, srcs, enableMap, st, divisions, adivisions,
                   cur, statime, lastHop>>

CatchShutdown ==
    /\ pc \in {"divide", "round", "hop"}
    /\ pc' = "shutdown"
    /\ UNCHANGED <<inv, cfStack, configMap, cfResult, bList, aList, srcs, enableMap, st, divisions, adivisions,
                   cur, statime, killfile, lastHop>>

HopperStep ==
    \/ ParseConfig \/ Configure \/ DispatchSource \/ CheckEnabled \/ DivideChannels
    \/ RoundStart \/ HopSource \/ Sleep

Next == HopperStep \/ CreateKillfile \/ CatchShutdown

\* main is one thread in an endless loop: it keeps taking its own steps.
Spec == Init /\ [][Next]_vars /\ WF_vars(HopperStep)

-----------------------------------------------------------------------------
TypeOK ==
    /\ pc \in {"configure", "dispatch", "check", "divide", "round", "hop"} \cup Stopped
    /\ Len(srcs) <= MaxSources
    /\ cur \in 1 .. MaxSources + 1
    /\ statime \in 0 .. 6
    /\ killfile \in BOOLEAN
    /\ cfResult \in {"running", "ok", "fail", "crash"}
    /\ Len(cfStack) <= MaxOpen
    /\ \A i \in DOMAIN st : st[i].func \in {"none", "default", "orinoco"}
                          /\ st[i].list \in {"a", "b"} /\ st[i].pos \in Nat

Hopping(i) == pc \in {"round", "hop"} /\ i \in DOMAIN st /\ st[i].func # "none"

(***************************************************************************)
(* The comment at lines 361-362: sources given with -c override the        *)
(* enablesources line of the config file, unless -C was given too; with no *)
(* enable list every source hops.  Once main is past its checks, the       *)
(* sources that got a hop function are exactly the ones this rule selects, *)
(* and every name of the effective enable list names a source.  The rule   *)
(* is applied by two separate tests (lines 363 and 429) and the check of   *)
(* lines 538-545.                                                          *)
(***************************************************************************)
Selected(n) ==
    CASE inv.cmdEnable # <<>>   -> n \in ToSet(inv.cmdEnable)
      [] inv.cmdSources # <<>>  -> TRUE
      [] ConfEnable # <<>>      -> n \in ToSet(ConfEnable)
      [] OTHER                  -> TRUE

EnableListRespected ==
    pc \in {"divide", "round", "hop"} =>
        /\ \A i \in DOMAIN st : st[i].func # "none" <=> Selected(srcs[i].name)
        /\ \A n \in ToSet(IF inv.cmdEnable # <<>> \/ inv.cmdSources = <<>>
                          THEN NamedSources ELSE <<>>) :
              \E i \in DOMAIN srcs : srcs[i].name = n

(***************************************************************************)
(* The hop loop cycles each hopping source through its whole channel list: *)
(* while the hopper runs, every channel of the rotation of a source is     *)
(* handed to its hop function again and again.                             *)
(***************************************************************************)
EveryChannelVisited ==
    \A i \in 1 .. MaxSources : \A c \in HopChannels :
        (Hopping(i) /\ c \in Rotation(ListOf(st[i].list)))
            ~> (pc \in Stopped \/ (lastHop.src = i /\ lastHop.chan = c))

(***************************************************************************)
(* A kill file makes the hopper stop: once /tmp/kismet_hopper.control      *)
(* exists, the loop that looks for it every seventh pass ends the process. *)
(***************************************************************************)
KillfileStops == killfile ~> pc \in Stopped

(***************************************************************************)
(* -d divides each channel list among the cards that hop it ("Dividing %d *)
(* channels into %d segments"): the division never faults, and a hop      *)
(* function is only ever handed a channel of the source's list, not the   *)
(* -1 terminator and nothing read past the end of the array.               *)
(***************************************************************************)
DivisionSound ==
    /\ pc # "sigfpe"
    /\ lastHop.src # 0 => lastHop.chan \in Rotation(ListOf(st[lastHop.src].list))

(***************************************************************************)
(* The hop loop hops only sources it has a command for: cisco, drone and   *)
(* wtapfile sources print "Skipping" and get no cmd_template, a wsp100     *)
(* source is set to hop by itself once (lines 477-505), and a lone wsp100  *)
(* source ends the hopper ("Terminating hopper ... No other devices",      *)
(* lines 508-511).  So defaulthopper is never called on a source whose     *)
(* cmd_template is NULL.                                                   *)
(***************************************************************************)
NoHopWithoutTemplate == lastHop.src # 0 => lastHop.tmpl
(***************************************************************************)
(* ParseConfig reads the config file as if every include line were the    *)
(* included file pasted in its place: once it has returned, it returned 1 *)
(* exactly when every file of that reading opens within MaxOpen levels,    *)
(* and then config_map holds each key's values in the reading's order (the *)
(* order that FetchOpt's "first value" and the source list depend on).  A *)
(* crash is only possible past MaxOpen levels.  A last line without a     *)
(* newline is not part of the reading: fgets sets EOF on it (line 43).     *)
(***************************************************************************)
ConfigParsedInOrder ==
    LET r == Cf!Reading(inv.configfile, 1)
    IN  cfResult # "running" =>
            IF r.ok THEN cfResult = "ok" /\ configMap = Cf!MapOf(r.opts)
                    ELSE cfResult = "fail" \/ (cfResult = "crash" /\ r.deep)

====
