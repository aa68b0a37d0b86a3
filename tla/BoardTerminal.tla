---------------------------- MODULE BoardTerminal ---------------------------
(***************************************************************************)
(* nvboard/example: the terminal of the virtual board above a design that  *)
(* connects its UART's RX to its TX.  The main loop updates the board and  *)
(* then clocks the design.  What is typed while the terminal has the focus *)
(* goes out on RX, comes back on TX and is shown.                          *)
(*                                                                         *)
(* typed and fed are histories.  read_event runs within an update, after   *)
(* the UART's part of it; as it touches no pin of the UART, it is a step   *)
(* of its own here.  So is update_state.  What the terminal does not get   *)
(* is left out, and with it the keyboard.                                  *)
(***************************************************************************)
EXTENDS NvboardUart

CONSTANTS Typable,      \* what a key or the text input can stand for
          MaxTyped      \* bound on typing

ASSUME BoardAssumption == /\ Nul \notin Typable /\ Typable \subseteq Char
                          /\ MaxTyped \in Nat
                          /\ IsAscii(Newline)

VARIABLES tx,                   \* the design's output
          uart_term_get_focus,
          aborted,              \* feed_ch's assertion failed
          typed, fed

boardVars == <<tx, uart_term_get_focus, aborted, typed, fed>>
vars      == <<termVars, uartVars, boardVars>>

Init == /\ TermInit /\ UartInit
        /\ tx = 1 /\ uart_term_get_focus = FALSE /\ aborted = FALSE
        /\ typed = <<>> /\ fed = <<>>

\* The part of a call of tx_receive that is the terminal's.
Feed == \/ /\ ~Receives(tx)
           /\ UNCHANGED <<termVars, aborted, fed>>
        \/ /\ Receives(tx) /\ IsAscii(tx_data)
           /\ feed_ch(tx_data)
           /\ fed' = Append(fed, tx_data)
           /\ UNCHANGED aborted
        \/ /\ Receives(tx) /\ ~IsAscii(tx_data)
           /\ aborted' = TRUE
           /\ UNCHANGED <<termVars, fed>>

\* An update of the board in which it is time for a bit; then the design.
Baud == /\ ~aborted /\ uart_divisor_cnt = 0
        /\ uart_divisor_cnt' = divisor - 1
        /\ tx_receive(tx) /\ Feed
        /\ IF is_uart_rx_idle
           THEN UNCHANGED <<rx_state, rx_data, rx_sending_str, is_uart_rx_idle, rx>>
           ELSE rx_send
        /\ tx' = rx'
        /\ UNCHANGED <<uart_term_get_focus, typed>>

Wait == /\ ~aborted /\ uart_divisor_cnt > 0
        /\ uart_divisor_cnt' = uart_divisor_cnt - 1
        /\ tx' = rx
        /\ UNCHANGED <<tx_state, tx_data, rx_state, rx_data, rx_sending_str,
                       is_uart_rx_idle, need_update_gui, rx, termVars,
                       uart_term_get_focus, aborted, typed, fed>>

nvboard_update == Baud \/ Wait

Redrawn == ~aborted /\ update_state /\ UNCHANGED boardVars

\* A click, on the terminal or elsewhere.
mousedown_handler(click_uart_term) ==
    /\ ~aborted /\ uart_term_get_focus # click_uart_term
    /\ uart_term_get_focus' = click_uart_term
    /\ set_focus
    /\ UNCHANGED <<uartVars, tx, aborted, typed, fed>>

\* SDL_KEYDOWN of return or backspace, or SDL_TEXTINPUT.
KeyTyped(ch) == /\ ~aborted /\ uart_term_get_focus /\ Len(typed) < MaxTyped
                /\ rx_getchar(ch)
                /\ typed' = Append(typed, ch)
                /\ UNCHANGED <<termVars, tx, uart_term_get_focus, aborted, fed>>

Next == \/ nvboard_update \/ Redrawn
        \/ \E v \in BOOLEAN : mousedown_handler(v)
        \/ \E ch \in Typable : KeyTyped(ch)

\* The main loop never stops, and a frame comes again and again.
Spec == Init /\ [][Next]_vars /\ WF_vars(nvboard_update) /\ WF_vars(Redrawn)

-----------------------------------------------------------------------------
TypeOK == /\ TermTypeOK /\ UartTypeOK
          /\ tx \in {0, 1} /\ uart_term_get_focus \in BOOLEAN /\ aborted \in BOOLEAN
          /\ typed \in Seq(Typable) /\ fed \in Seq(Char)

(* The character on its way, from its start bit on RX to its stop bit on   *)
(* TX: as many bits of it as were sampled are in tx_data, the next is on   *)
(* the wire, and the rest are in rx_data.                                  *)
OnTheWay(ch) ==
    /\ tx_state = IF rx_state = 0 THEN Stop ELSE rx_state - 1
    /\ \A i \in 1 .. DataBits :
          /\ i < tx_state => tx_data[DataBits - tx_state + 1 + i] = ch[i]
          /\ i = tx_state => tx = ch[i]
          /\ i > tx_state => rx_data[i - tx_state] = ch[i]

InFlight == ~(rx_state = 0 /\ tx_state = 0)

(* Nothing typed is lost, doubled, altered or overtaken on its way through *)
(* the two shift registers and the design, which share one baud counter:   *)
(* the terminal has printed all but what waits in the string and at most   *)
(* one character that is on the wire.                                      *)
EchoFaithful ==
    IF aborted
    THEN ~IsAscii(typed[Len(fed) + 1]) /\ SubSeq(typed, 1, Len(fed)) = fed
    ELSE IF InFlight
    THEN /\ Len(typed) = Len(fed) + 1 + Len(rx_sending_str)
         /\ OnTheWay(typed[Len(fed) + 1])
         /\ typed = fed \o <<typed[Len(fed) + 1]>> \o rx_sending_str
    ELSE typed = fed \o rx_sending_str

(* Whatever was typed is shown at last, unless it was not ASCII: neither   *)
(* the idle flag nor the redraw that waits for its time keeps it back.     *)
EchoShown == []<>(\/ aborted
                  \/ /\ fed = typed /\ dirty = {}
                     /\ \A c \in Cell \ {CursorCell} : drawn[c] = Content(c))
=============================================================================
