------------------------------ MODULE SmtpMailer ------------------------------
(***************************************************************************)
(* The mail of src/infrastructure/notification/email_sender.cpp: sendAll     *)
(* takes the accounts one after the other, sendTo holds an SMTP dialogue    *)
(* for each, with TLS from the start on port 465 and by STARTTLS else.      *)
(*                                                                         *)
(* A reply has one line or more, and a line reaches the client in two       *)
(* parts, the first of which begins with the code: a read may return any    *)
(* number of parts.  What decides whether readResponse reads on is the      *)
(* third character from the end of the last complete line; hyphen says      *)
(* whether it is one.  A part has three characters or more.  A server that  *)
(* hangs up and one that is silent look the same: read() returns nothing.   *)
(***************************************************************************)
EXTENDS Integers, Sequences, FiniteSetsExt

CONSTANTS Accounts,   \* number of accounts
          Valid,      \* those whose addresses and password pass the checks
          MaxLines    \* bound: lines of a reply

ASSUME AccountsAssumption == Accounts \in Nat /\ Valid \subseteq 1 .. Accounts
ASSUME LinesAssumption == MaxLines \in Nat \ {0}

VARIABLES ssl,       \* smtp_port == 465
          account,   \* the account sendAll is at
          at,        \* place in the script of sendTo, 0 before connect
          out,       \* readResponse: what has been read
          sent,      \* code == 250 after the message
          results,   \* of sendTo
          rcv,       \* parts in the client's socket
          commands,  \* what the server has not answered yet
          granted,   \* it has answered DATA with 354
          accepted, fault, split   \* history, by account: the message was accepted;
                     \* the server refused, a read timed out, the connection or
                     \* TLS failed; a reply was read only in part

client == <<account, at, out, sent, results>>
peer   == <<commands, granted, accepted>>
vars   == <<ssl, client, rcv, peer, fault, split>>

Opening == IF ssl THEN <<"tls", "greeting">>
                  ELSE <<"greeting", "hello", "starttls", "tls">>
Script == Opening \o <<"ehlo", "auth", "mail", "rcpt", "data", "body", "quit">>
Step == Script[at]
Steps == {"tls", "greeting", "hello", "starttls", "ehlo", "auth", "mail", "rcpt",
          "data", "body", "quit"}

Good == [s \in Steps |-> CASE s \in {"greeting", "starttls"} -> 220
                           [] s = "auth" -> 235
                           [] s = "data" -> 354
                           [] OTHER -> 250]
Refusal == 500
NoCode == -1

Init == /\ ssl \in BOOLEAN
        /\ account = 1 /\ at = 0 /\ out = <<>> /\ sent = FALSE
        /\ results = [a \in 1 .. Accounts |-> "none"]
        /\ rcv = <<>> /\ commands = <<>> /\ granted = FALSE
        /\ accepted = {} /\ fault = {} /\ split = {}

-----------------------------------------------------------------------------
(* The next command, or the TLS handshake, for which none is sent.  The     *)
(* server speaks first: its greeting is due as if it had been asked for.    *)
Enter(i) == /\ at' = i /\ out' = <<>>
            /\ commands' = IF Script[i] = "tls" THEN commands
                                                ELSE Append(commands, Script[i])
            /\ UNCHANGED <<account, results, granted, accepted>>

(* sendTo closes the connection and returns; sendAll goes on.               *)
Return(ok) == /\ results' = [results EXCEPT ![account] = IF ok THEN "sent" ELSE "failed"]
              /\ account' = account + 1 /\ at' = 0 /\ out' = <<>> /\ sent' = FALSE
              /\ rcv' = <<>> /\ commands' = <<>> /\ granted' = FALSE
              /\ UNCHANGED accepted

Blame(set) == set' = set \cup {account}

(* The checks of the account, DNS and connect.                              *)
Connect == /\ at = 0 /\ account <= Accounts
           /\ \/ account \in Valid /\ Enter(1) /\ UNCHANGED <<sent, rcv, fault>>
              \/ Return(FALSE) /\ Blame(fault)
           /\ UNCHANGED <<ssl, split>>

Talking == at > 0 /\ Step # "tls"

(* startTls: what is left of a plain reply is no handshake.                 *)
StartTls ==
    /\ at > 0 /\ Step = "tls"
    /\ \/ rcv = <<>> /\ Enter(at + 1) /\ UNCHANGED <<sent, rcv, fault>>
       \/ rcv = <<>> /\ Return(FALSE) /\ Blame(fault)
       \/ rcv # <<>> /\ Return(FALSE) /\ UNCHANGED fault
    /\ UNCHANGED <<ssl, split>>

-----------------------------------------------------------------------------
(* readResponse reads on until the last complete line seems the last one.   *)
Ends(parts) == \E j \in DOMAIN parts :
                  /\ parts[j].crlf /\ ~parts[j].hyphen
                  /\ \A k \in j + 1 .. Len(parts) : ~parts[k].crlf

(* getResponseCode: what was read may begin within a line.                  *)
Code(parts) == IF parts = <<>> THEN NoCode
               ELSE IF parts[1].crlf THEN NoCode ELSE parts[1].code

(* Mutant: any answer to DATA will do.                                      *)
DataUnchecked(code) == CASE Step = "hello" -> TRUE
                         [] Step = "ehlo" -> code >= 200 /\ code < 400
                         [] Step = "data" -> TRUE
                         [] OTHER -> code = Good[Step]
(* Mutant: EHLO is expected to greet.                                       *)
HelloGreets(code) == CASE Step = "hello" -> code = 220
                       [] Step = "ehlo" -> code >= 200 /\ code < 400
                       [] OTHER -> code = Good[Step]
Passes(code) == CASE Step = "hello" -> TRUE
                  [] Step = "ehlo" -> code >= 200 /\ code < 400
                  [] OTHER -> code = Good[Step]

(* What sendTo does with the code of a reply.                               *)
Judge(code, left) ==
    \/ /\ Step = "body" /\ Enter(at + 1) /\ sent' = (code = 250) /\ rcv' = left
    \/ /\ Step = "quit" /\ Return(sent)
    \/ /\ Step \notin {"body", "quit"} /\ Passes(code)
       /\ Enter(at + 1) /\ rcv' = left /\ UNCHANGED sent
    \/ /\ Step \notin {"body", "quit"} /\ ~Passes(code)
       /\ Return(FALSE)

Read == /\ Talking /\ rcv # <<>>
        /\ \E k \in 1 .. Len(rcv) :
              LET parts == out \o SubSeq(rcv, 1, k)
                  left  == SubSeq(rcv, k + 1, Len(rcv))
              IN  IF Ends(parts)
                  THEN /\ Judge(Code(parts), left)
                       /\ IF left = <<>> THEN UNCHANGED split ELSE Blame(split)
                  ELSE /\ out' = parts /\ rcv' = left
                       /\ UNCHANGED <<account, at, sent, results, peer, split>>
        /\ UNCHANGED <<ssl, fault>>

(* Mutant: the socket has no timeout.                                       *)
WaitOn == FALSE /\ UNCHANGED vars
(* SO_RCVTIMEO: what has been read so far is the reply.                     *)
Timeout == /\ Talking /\ Judge(Code(out), rcv) /\ Blame(fault)
           /\ UNCHANGED <<ssl, split>>

-----------------------------------------------------------------------------
(* The server answers in order, each command with one reply.  It takes a    *)
(* message only after it has asked for it.                                  *)
Reply(code, lines, hyphen) ==
    [p \in 1 .. 2 * lines |-> [code |-> code, crlf |-> p % 2 = 0, hyphen |-> hyphen]]

Answer ==
    /\ commands # <<>>
    /\ \E code \in {Good[Head(commands)], Refusal}, m \in 1 .. MaxLines, h \in BOOLEAN :
          /\ Head(commands) = "body" /\ ~granted => code = Refusal
          /\ rcv' = rcv \o Reply(code, m, h)
          /\ granted' = IF Head(commands) = "data" THEN code # Refusal ELSE granted
          /\ IF Head(commands) = "body" /\ code # Refusal THEN Blame(accepted)
                                                           ELSE UNCHANGED accepted
          /\ IF code = Refusal THEN Blame(fault) ELSE UNCHANGED fault
    /\ commands' = Tail(commands)
    /\ UNCHANGED <<ssl, client, split>>

Client == Connect \/ StartTls \/ Read \/ Timeout
Next == Client \/ Answer

(* A read returns what is there or times out.                               *)
Spec == Init /\ [][Next]_vars /\ WF_vars(Client)

-----------------------------------------------------------------------------
Part == [code : {220, 235, 250, 354, Refusal}, crlf : BOOLEAN, hyphen : BOOLEAN]

(* Types; and nothing of one connection is left for the next.               *)
TypeOK == /\ ssl \in BOOLEAN /\ sent \in BOOLEAN /\ granted \in BOOLEAN
          /\ account \in 1 .. Accounts + 1 /\ at \in 0 .. Len(Script)
          /\ {out, rcv} \subseteq Seq(Part) /\ commands \in Seq(Steps)
          /\ results \in [1 .. Accounts -> {"none", "sent", "failed"}]
          /\ accepted \cup fault \cup split \subseteq 1 .. Accounts
          /\ at = 0 => rcv = <<>> /\ commands = <<>> /\ out = <<>>

(* sendTo returns true only for a message the server has accepted, however  *)
(* the replies are cut and late: none of those before it can be taken for   *)
(* its answer.                                                              *)
SentIsAccepted == \A a \in 1 .. Accounts : results[a] = "sent" => a \in accepted

(* A message that failed was refused, or an answer was late, the connection *)
(* or TLS failed; or readResponse stopped within a reply, so that the rest  *)
(* of it was taken for the answer to the next command.                      *)
FailureExplained ==
    \A a \in 1 .. Accounts : results[a] = "failed" => a \in fault \cup split

(* README.md:14, mail is sent when the public address changes: a message    *)
(* to a valid account fails only by the server, the network or TLS.         *)
FailureIsNotOurs ==
    \A a \in 1 .. Accounts : results[a] = "failed" => a \in fault

(* sendAll comes to its end, whatever the servers leave unanswered.         *)
DialogueEnds == at > 0 ~> account = Accounts + 1
===============================================================================
