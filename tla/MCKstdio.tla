------------------------------ MODULE MCKstdio ------------------------------
(* Archives with blocks of 4 bytes; ints of 4 bits, words of 6; a screen of 2 *)
(* rows of 2 cells.                                                           *)
EXTENDS Kstdio

entry(p, s) == [path |-> p, size |-> s]
MountPoints == <<entry(<<"dev">>, 0), entry(<<"tmp">>, 0), entry(<<"dev", "hd">>, 1), entry(<<"tmp", "a">>, 2)>>

MCDevices == <<[name |-> "hd", type |-> "block", size |-> 5], [name |-> "tty0", type |-> "char", size |-> 0]>>

MCPaths == {<<"a">>, <<"d">>, <<"d", "a">>, <<"d", "e">>, <<"d", "e", "a">>, <<"e">>,
            <<"dev", "hd">>, <<"dev", "tty0">>, <<"dev", "a">>, <<"tmp", "a">>, <<"tmp", "a", "b">>}

Nothing == [archive |-> MountPoints, open |-> {}, create |-> {}, lengths |-> {}, data |-> {},
            steps |-> {}, print |-> {}]

\* Two files in directories of two levels, of sizes that end before, with and
\* behind a block; a file that is there twice; an entry without its directory.
Archives1 ==
    { MountPoints \o <<entry(<<"a">>, s), entry(<<"d">>, 0), entry(<<"d", "e">>, 0), entry(<<"d", "e", "a">>, t)>> :
         s \in {0, 1, 4}, t \in {3, 4, 5, 7} }
    \cup { MountPoints \o <<entry(<<"d">>, 0), entry(<<"d", "a">>, 3), entry(<<"d", "a">>, 2)>>,
           <<entry(<<"a">>, 2), entry(<<"d", "a">>, 1)>> }

\* Files of the archive and of a disk.
Reading == {[Nothing EXCEPT !.archive = a, !.open = MCPaths, !.lengths = {0, 1, 3, 7}, !.steps = {-2, 0, 3}] :
               a \in Archives1}

\* Files in /tmp, one in a directory there, one name twice.
Writing == [Nothing EXCEPT !.create = {<<"tmp", "a">>, <<"tmp", "a", "b">>},
                           !.open = {<<"tmp", "a">>, <<"tmp", "a", "b">>},
                           !.lengths = {1, 3}, !.data = {<<"p">>, <<"q", "q">>}]

\* The terminal.
Typing == [Nothing EXCEPT !.open = {<<"dev", "tty0">>},
                          !.data = {<<"p">>, <<"q", "\n">>, <<"\n">>, <<"\r">>, <<"\t">>, <<BACKSPACE>>, <<"\f">>}]

\* Formats.
word(t) == [kind |-> "text", text |-> t]
number(k, alt, pad, long, n) == [kind |-> k, alt |-> alt, pad |-> pad, long |-> long, arg |-> n]
Items ==
    {number("d", <<>>, p, l, n) : p \in {0, 3, 8}, l \in {<<>>, <<"l">>}, n \in {0, 9, 10, 409}}
    \cup {number("d", <<>>, p, l, n) : p \in {0, 3}, l \in {<<>>, <<"l">>}, n \in {-513, -512, -10, 511, 512, 1031}}
    \cup {number("u", <<>>, p, l, n) : p \in {0, 3}, l \in {<<>>, <<"l", "l">>}, n \in {7, 511, 512, 1023}}
    \cup {number("d", <<>>, p, <<>>, 409) : p \in 9 .. 12}
    \cup {number("x", alt, p, <<>>, n) : alt \in {<<>>, <<"#">>}, p \in {0, 2, 3, 5}, n \in {0, 1, 15, 16, 255, 256}}
    \cup {[kind |-> "p", arg |-> n] : n \in {0, 128, 4095}}
    \cup {[kind |-> "s", arg |-> s] : s \in {<<>>, <<"v", "%", "d">>}}
    \cup {[kind |-> "c", arg |-> c] : c \in {"w", "%"}}
Formats == {<<it>> : it \in Items}
           \cup {<<word(<<"v">>), it, word(<<"0", "d">>)>> : it \in Items}
           \cup {<<[kind |-> "s", arg |-> <<"w">>], it, number("x", <<>>, p, <<>>, 10)>> : p \in {0, 2}, it \in Items}
Formatted == [Nothing EXCEPT !.print = Formats]

MCScenes == Reading \cup {Writing, Typing, Formatted}
MCArchives == {s.archive : s \in MCScenes}
=============================================================================
