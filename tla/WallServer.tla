----------------------------- MODULE WallServer -----------------------------
(***************************************************************************)
(* The wall server of Exercise 8: one process that serves one client at a  *)
(* time.  It shows the wall, reads a command and, for a post, a name and a *)
(* text, each with one recv.                                               *)
(*                                                                         *)
(* TCP carries bytes, not lines: recv returns any part of what the client  *)
(* has typed so far, and it returns nothing once the client has gone and   *)
(* all it had typed is read.  What a client types is cut into words, the   *)
(* units that properties tell apart; a line end is a word of its own, and  *)
(* a fragment of a command is just another word.  Each word typed carries  *)
(* a number, so that it can be recognised wherever it ends up.             *)
(*                                                                         *)
(* A client whose machine vanishes without closing the connection is a     *)
(* client that types nothing any more.  recv's limit of 1023 bytes is one  *)
(* more reason for a recv to return only a part.                           *)
(***************************************************************************)
EXTENDS Integers, Sequences, SequencesExt

CONSTANTS
    Length,      \* the words clients type, with their lengths in bytes
    WallSizes,   \* sizes the server may be started with (argv[1])
    MaxTyped     \* bound: the number of words typed in all

Commands == {"clear", "post", "kill", "quit"}

\* A negative size would become a huge size_t, a wall that is never full.
ASSUME WallAssumption ==
    /\ Commands \cup {"newline"} \subseteq DOMAIN Length
    /\ \A w \in DOMAIN Length : Length[w] \in Nat \ {0}
    /\ WallSizes \subseteq Nat
    /\ MaxTyped \in Nat

VARIABLES
    wall, max_messages, server_running,
    pc,
    buffer, name,  \* of the current iteration of the client's loop
    client,        \* the other end of client_fd
    pending,       \* what the client typed and the server has not read
    typed,         \* number of words typed in all
    posts          \* every message posted since the wall was last cleared

vars == <<wall, max_messages, server_running, pc, buffer, name,
          client, pending, typed, posts>>

-----------------------------------------------------------------------------
(* Words and messages                                                      *)

Word(w, n) == [word |-> w, id |-> n]

Bytes(text) == FoldSeq(LAMBDA t, n : Length[t.word] + n, 0, text)

\* Mutant of Trimmed: an if for the while, which trims one line end at most.
TrimmedOnce(text) ==
    IF text # <<>> /\ Last(text).word = "newline" THEN Front(text) ELSE text

\* trim_newline
Trimmed(text) ==
    LET kept == {i \in DOMAIN text : text[i].word # "newline"}
    IN  SubSeq(text, 1, IF kept = {} THEN 0 ELSE CHOOSE i \in kept : \A j \in kept : j <= i)

Is(text, w) == Len(text) = 1 /\ text[1].word = w

\* Mutant of NameFits: the separator is forgotten.
NameFitsAlone(text) == Bytes(text) <= 80

NameFits(text) == Bytes(text) <= 80 - 2

\* max_post_len is an int; the comparison is one of size_t, in which a
\* negative number is larger than any length.
TextFits(text) ==
    LET max_post_len == 80 - Bytes(name) - 2
    IN  max_post_len < 0 \/ Bytes(text) <= max_post_len

Message(text) == [name |-> name, text |-> text]
MessageBytes(m) == Bytes(m.name) + 2 + Bytes(m.text)

\* Mutant of Full: one message more.
FullBeyond == Len(wall) > max_messages

Full == Len(wall) >= max_messages

-----------------------------------------------------------------------------
(* The connection                                                          *)

\* What the next recv may return: with the client there, recv waits for input.
Incoming ==
    {SubSeq(pending, 1, n) : n \in 1 .. Len(pending)}
        \cup (IF pending = <<>> /\ client # "here" THEN {<<>>} ELSE {})

\* Mutant of Received: the buffer is not wiped, and what a shorter read does
\* not overwrite stays in it.
ReceivedOver(got) == got \o SubSeq(buffer, Len(got) + 1, Len(buffer))

\* receive_message wipes the buffer before it reads into it.
Received(got) == got

ReceiveMessage(got) ==
    /\ got \in Incoming
    /\ buffer' = Trimmed(Received(got))
    /\ pending' = SubSeq(pending, Len(got) + 1, Len(pending))

\* A number of sends, and then control is at next.  The first message to a
\* client that has closed its end is answered with a reset; a send after the
\* reset has arrived ends the process, which does not handle SIGPIPE.
SendThen(number, next) ==
    \/ /\ pc' = next
       /\ client' = IF client = "closed" THEN "resetting" ELSE client
    \/ /\ \/ client = "resetting"
          \/ client = "closed" /\ number > 1
       /\ pc' = "dead"
       /\ client' = "resetting"

\* The client types a word.
Type ==
    /\ client = "here"
    /\ typed < MaxTyped
    /\ \E w \in DOMAIN Length : pending' = Append(pending, Word(w, typed + 1))
    /\ typed' = typed + 1
    /\ UNCHANGED <<wall, max_messages, server_running, pc, buffer, name, client, posts>>

\* The client closes its end, or its process ends.  If it has not read all
\* that was sent to it, the connection is reset at once.
Leave ==
    /\ client = "here"
    /\ client' \in {"closed", "resetting"}
    /\ UNCHANGED <<wall, max_messages, server_running, pc, buffer, name, pending, typed, posts>>

-----------------------------------------------------------------------------
(* The server                                                              *)

Init ==
    /\ wall = <<>>
    /\ max_messages \in WallSizes
    /\ server_running = TRUE
    /\ pc = "accept"
    /\ buffer = <<>>
    /\ name = <<>>
    /\ client = "none"
    /\ pending = <<>>
    /\ typed = 0
    /\ posts = <<>>

\* A client that typed or left while it was waiting does so right after.
Accept ==
    /\ pc = "accept"
    /\ pc' = "show"
    /\ client' = "here"
    /\ UNCHANGED <<wall, max_messages, server_running, buffer, name, pending, typed, posts>>

\* The header, what is on the wall, the prompt.
Show ==
    /\ pc = "show"
    /\ SendThen(2 + (IF wall = <<>> THEN 1 ELSE 2 * Len(wall)), "command")
    /\ UNCHANGED <<wall, max_messages, server_running, buffer, name, pending, typed, posts>>

\* The commands.  received is what trim_newline leaves of the buffer.
ReceiveCommand(got) ==
    /\ pc = "command"
    /\ ReceiveMessage(got)
    /\ UNCHANGED <<max_messages, name, typed>>

\* Mutant of EndOfInput: the result of recv is not tested.
EndOfInputUnseen(got) == FALSE

EndOfInput(got) == got = <<>>

ClientGone ==
    \E got \in Incoming :
        /\ ReceiveCommand(got)
        /\ EndOfInput(got)
        /\ pc' = "close"
        /\ UNCHANGED <<wall, server_running, client, posts>>

Clear ==
    \E got \in Incoming :
        /\ ReceiveCommand(got)
        /\ ~EndOfInput(got)
        /\ Is(buffer', "clear")
        /\ wall' = <<>>
        /\ posts' = <<>>
        /\ SendThen(1, "show")
        /\ UNCHANGED server_running

StartPost ==
    \E got \in Incoming :
        /\ ReceiveCommand(got)
        /\ ~EndOfInput(got)
        /\ Is(buffer', "post")
        /\ SendThen(1, "name")
        /\ UNCHANGED <<wall, server_running, posts>>

Kill ==
    \E got \in Incoming :
        /\ ReceiveCommand(got)
        /\ ~EndOfInput(got)
        /\ Is(buffer', "kill")
        /\ server_running' = FALSE
        /\ SendThen(1, "close")
        /\ UNCHANGED <<wall, posts>>

Quit ==
    \E got \in Incoming :
        /\ ReceiveCommand(got)
        /\ ~EndOfInput(got)
        /\ Is(buffer', "quit")
        /\ SendThen(1, "close")
        /\ UNCHANGED <<wall, server_running, posts>>

\* Anything else is ignored, two commands that arrive together included.
Ignore ==
    \E got \in Incoming :
        /\ ReceiveCommand(got)
        /\ ~EndOfInput(got)
        /\ \A c \in Commands : ~Is(buffer', c)
        /\ pc' = "show"
        /\ UNCHANGED <<wall, server_running, client, posts>>

\* The name and the text of a post.  Whether recv returned anything is not
\* looked at: a client that goes away posts an empty name or text.
ReceiveName ==
    /\ pc = "name"
    /\ \E got \in Incoming : ReceiveMessage(got)
    /\ name' = buffer'
    /\ SendThen(1, IF NameFits(buffer') THEN "text" ELSE "show")
    /\ UNCHANGED <<wall, max_messages, server_running, typed, posts>>

ReceiveText ==
    /\ pc = "text"
    /\ \E got \in Incoming : ReceiveMessage(got)
    /\ UNCHANGED <<max_messages, server_running, name, typed>>

RefuseText ==
    /\ ReceiveText
    /\ ~TextFits(buffer')
    /\ SendThen(1, "show")
    /\ UNCHANGED <<wall, posts>>

\* The wall with a message pushed and, if it was full, the oldest popped.
Pushed(m) == IF Full THEN Tail(Append(wall, m)) ELSE Append(wall, m)

Post ==
    /\ ReceiveText
    /\ TextFits(buffer')
    /\ wall' = Pushed(Message(buffer'))
    /\ posts' = Append(posts, Message(buffer'))
    /\ SendThen(1, "show")

\* pop_front of an empty wall, which a wall of size 0 comes to, is undefined:
\* the end of the process, or a wall that the push leaves empty again (Post).
PopFrontOfEmpty ==
    /\ ReceiveText
    /\ TextFits(buffer')
    /\ Full /\ wall = <<>>
    /\ pc' = "dead"
    /\ UNCHANGED <<wall, client, posts>>

\* close(client_fd); what was not read is lost.
Close ==
    /\ pc = "close"
    /\ pc' = IF server_running THEN "accept" ELSE "stopped"
    /\ client' = "none"
    /\ pending' = <<>>
    /\ UNCHANGED <<wall, max_messages, server_running, buffer, name, typed, posts>>

Client == Type \/ Leave
Server ==
    \/ Accept \/ Show \/ Close
    \/ ClientGone \/ Clear \/ StartPost \/ Kill \/ Quit \/ Ignore
    \/ ReceiveName \/ RefuseText \/ Post \/ PopFrontOfEmpty

Next == Client \/ Server

Spec == Init /\ [][Next]_vars

\* The server is one thread, and nothing but input from a client that is
\* there can keep it waiting.
FairSpec == Spec /\ WF_vars(Server)

-----------------------------------------------------------------------------
(* Properties                                                              *)

Texts == Seq([word : DOMAIN Length, id : 1 .. MaxTyped])
Messages == [name : Texts, text : Texts]

\* The server's variables have their types, no received text ends in a line
\* end, and something pending has a client it came from.
TypeOK ==
    /\ wall \in Seq(Messages)
    /\ posts \in Seq(Messages)
    /\ max_messages \in WallSizes
    /\ server_running \in BOOLEAN
    /\ pc \in {"accept", "show", "command", "name", "text", "close", "stopped", "dead"}
    /\ {buffer, name, pending} \subseteq Texts
    /\ Trimmed(buffer) = buffer
    /\ client \in {"none", "here", "closed", "resetting"}
    /\ typed \in 0 .. MaxTyped
    /\ client = "none" => pending = <<>>

\* The wall is the latest messages posted since it was cleared, as many as it
\* takes, oldest first, whichever sessions they came from (the FIFO wall_queue).
WallHoldsLatest ==
    LET n == Len(posts)
        shown == IF n < max_messages THEN n ELSE max_messages
    IN  wall = SubSeq(posts, n - shown + 1, n)

\* However the bytes of the dialogue arrive, a message with its name and
\* separator has at most 80 bytes (the limit of post).
MessagesFit == \A i \in DOMAIN wall : MessageBytes(wall[i]) <= 80

\* From the oldest message to the latest, name before text, what is on the
\* wall was typed in that order and is there once: nothing left in the buffer
\* from an earlier read, or by an earlier client, is posted.
WallInTypingOrder ==
    LET words == FlattenSeq([i \in DOMAIN wall |-> wall[i].name \o wall[i].text])
    IN  \A i, j \in DOMAIN words : i < j => words[i].id < words[j].id

\* When the client has gone, its session ends: the server never keeps talking
\* to nobody, whatever point of the dialogue the client left it at.
SessionEnds ==
    client \in {"closed", "resetting"} ~> pc \in {"accept", "stopped", "dead"}

\* The server is active until the kill command switches it off (the comment
\* on server_running).
RunsUntilKilled == pc \in {"stopped", "dead"} => Is(buffer, "kill")
=============================================================================
