-------------------------- MODULE MCChannelHopper --------------------------
(***************************************************************************)
(* Invocations of kismet_hopper for TLC.  Each is a command line together  *)
(* with the kismet.conf it reads: one per path of the setup code, and the *)
(* card mixes that reach the hop loop, with and without -d.                *)
(***************************************************************************)
EXTENDS ChannelHopper

Src(type, name) == [type |-> type, name |-> name, host |-> TRUE, fields |-> 3]

\* A channel-list option: none, -n, or -s / -S with its tokens.
Dflt      == [kind |-> "default", tokens |-> <<>>, scans |-> TRUE]
Intl      == [kind |-> "intl", tokens |-> <<>>, scans |-> TRUE]
Custom(t) == [kind |-> "custom", tokens |-> t, scans |-> TRUE]

Inv(hs, hsA, d, cs, ce, cfile) ==
    [hopseq |-> hs, hopseqA |-> hsA, divide |-> d, configfile |-> cfile,
     cmdSources |-> cs, cmdEnable |-> ce]

P1 == Src("prism2", "n1")
O2 == Src("orinoco", "n2")
A1 == Src("ar5k", "n1")
A2 == Src("ar5k", "n2")
C3 == Src("cisco", "n3")

\* Config file lines, as ParseConfig classifies them.
Ln(kind, k, v) == [kind |-> kind, key |-> k, value |-> v]
Blank      == Ln("blank", "", "")
Comment    == Ln("comment", "", "")
Bare       == Ln("bare", "", "")
NoValue    == Ln("novalue", "", "")
Inc(f)     == Ln("include", "", f)
SrcLine(s) == Ln("opt", "source", s)
EnLine(ns) == Ln("opt", "enablesources", ns)

\* A kismet.conf with the given source lines and enablesources line.
Conf(fs, fe) ==
    [lines |-> <<Comment>> \o [i \in DOMAIN fs |-> SrcLine(fs[i])]
                          \o (IF fe = <<>> THEN <<>> ELSE <<EnLine(fe)>>),
     nl |-> TRUE]

MCConfFiles ==
    ("empty.conf"   :> Conf(<<>>, <<>>)) @@
    ("old.conf"     :> [lines |-> <<SrcLine(P1), Ln("opt", "cardtype", "prism2")>>,
                        nl |-> TRUE]) @@
    ("n1n4.conf"    :> Conf(<<P1, O2>>, <<"n1", "n4">>)) @@
    ("n1.conf"      :> Conf(<<>>, <<"n1">>)) @@
    ("n2.conf"      :> Conf(<<P1, O2>>, <<"n2">>)) @@
    ("p1o2.conf"    :> Conf(<<P1, O2>>, <<>>)) @@
    ("p1avs.conf"   :> Conf(<<P1, Src("prism2_avs", "n2")>>, <<>>)) @@
    ("a1a2.conf"    :> Conf(<<A1, A2>>, <<>>)) @@
    ("p1a2a3.conf"  :> Conf(<<P1, A2, Src("ar5k", "n3")>>, <<>>)) @@
    ("p1c3.conf"    :> Conf(<<P1, C3>>, <<>>)) @@
    \* an include, skipped lines, two enablesources lines, and an included
    \* file whose last line has no newline
    ("main.conf"    :> [lines |-> <<Comment, Inc("sources.conf"), Bare, NoValue,
                                    EnLine(<<"n2">>), Blank, EnLine(<<"n1">>)>>,
                        nl |-> TRUE]) @@
    ("sources.conf" :> [lines |-> <<SrcLine(O2), Blank, SrcLine(P1)>>, nl |-> FALSE]) @@
    \* a file that includes itself, and an include of a missing file
    ("loop.conf"    :> [lines |-> <<Inc("loop.conf"), SrcLine(P1)>>, nl |-> TRUE]) @@
    ("broken.conf"  :> [lines |-> <<SrcLine(P1), Inc("gone.conf")>>, nl |-> TRUE])

\* Setup paths that end before the hop loop, and one per card type.
MCSetupInvocations ==
    { Inv(Dflt, Dflt, FALSE, <<>>, <<>>, "empty.conf"),          \* no sources
      Inv([Custom(<<1>>) EXCEPT !.scans = FALSE], Dflt, FALSE, <<P1>>, <<>>, "empty.conf"),
      Inv(Dflt, Dflt, FALSE, <<>>, <<>>, "old.conf"),
      Inv(Dflt, Dflt, FALSE, <<[P1 EXCEPT !.fields = 2]>>, <<>>, "empty.conf"),
      Inv(Dflt, Dflt, FALSE, <<C3>>, <<>>, "empty.conf"),         \* lone cisco
      Inv(Dflt, Dflt, FALSE, <<Src("wsp100", "n1")>>, <<>>, "empty.conf"),
      Inv(Dflt, Dflt, FALSE, <<[Src("wsp100", "n1") EXCEPT !.host = FALSE], P1>>,
          <<>>, "empty.conf"),
      Inv(Dflt, Dflt, FALSE, <<Src("hostap", "n1")>>, <<>>, "empty.conf"),
      \* enable lists: a missing name, -C over -c, and -c over the config line
      Inv(Dflt, Dflt, FALSE, <<>>, <<>>, "n1n4.conf"),
      Inv(Dflt, Dflt, FALSE, <<P1, O2>>, <<"n2">>, "empty.conf"),
      Inv(Dflt, Dflt, FALSE, <<P1, O2>>, <<>>, "n1.conf"),
      Inv(Dflt, Dflt, FALSE, <<>>, <<>>, "n2.conf"),
      \* config files: includes, an include cycle, a missing include or file
      Inv(Dflt, Dflt, FALSE, <<>>, <<>>, "main.conf"),
      Inv(Dflt, Dflt, FALSE, <<>>, <<>>, "loop.conf"),
      Inv(Dflt, Dflt, FALSE, <<>>, <<>>, "broken.conf"),
      Inv(Dflt, Dflt, FALSE, <<>>, <<>>, "nowhere.conf") }

\* Card mixes that reach the hop loop.
MCHopInvocations ==
    { Inv(Intl, Dflt, FALSE, <<>>, <<>>, "p1o2.conf"),
      Inv(Dflt, Dflt, TRUE, <<>>, <<>>, "p1o2.conf"),
      Inv(Custom(<<1, 6, 11>>), Dflt, TRUE, <<>>, <<>>, "p1avs.conf"),
      Inv(Dflt, Custom(<<36, 44>>), TRUE, <<>>, <<>>, "a1a2.conf"),
      Inv(Dflt, Dflt, TRUE, <<>>, <<>>, "p1a2a3.conf"),
      Inv(Dflt, Dflt, FALSE, <<>>, <<>>, "p1c3.conf"),
      Inv(Dflt, Dflt, FALSE, <<P1, Src("wsp100", "n3")>>, <<>>, "empty.conf") }

MCInvocations == MCSetupInvocations \cup MCHopInvocations

MCHopChannels == {1, 2, 3, 4, 5, 6, 7, 8, 9, 10, 11, 12, 13, 14,
                  36, 40, 44, 48, 52, 56, 60, 64}
====
