----------------------------- MODULE NvboardUart ----------------------------
(***************************************************************************)
(* nvboard/src/uart.cpp: the UART of the virtual board.  Once in divisor   *)
(* updates it samples the design's TX and, when there is something typed,  *)
(* sends the next bit of it on the design's RX: a start bit, the data bits *)
(* and a stop bit.  One routine keeps the time for both directions.        *)
(***************************************************************************)
EXTENDS NvboardTerm

CONSTANTS divisor, DataBits     \* 16 and 8 in the code

ASSUME UartAssumption == /\ divisor \in Nat \ {0} /\ DataBits \in Nat \ {0}
                         /\ Char = [1 .. DataBits -> {0, 1}]

VARIABLES uart_divisor_cnt,
          tx_state, tx_data,            \* the frame coming in
          rx_state, rx_data,            \* the frame going out
          rx_sending_str, is_uart_rx_idle,
          need_update_gui,
          rx                            \* the pin UART_RX

uartVars == <<uart_divisor_cnt, tx_state, tx_data, rx_state, rx_data, rx_sending_str,
              is_uart_rx_idle, need_update_gui, rx>>

Stop == DataBits + 1
Nul  == [i \in 1 .. DataBits |-> 0]

\* feed_ch asserts that a character is below 128.
IsAscii(ch) == ch[DataBits] = 0

\* The data go least significant bit first, as bit 1.
ShiftIn(data, bit) == [i \in 1 .. DataBits |-> IF i = DataBits THEN bit ELSE data[i + 1]]

UartInit == /\ uart_divisor_cnt = divisor - 1
            /\ tx_state = 0 /\ tx_data = Nul /\ rx_state = 0 /\ rx_data = Nul
            /\ rx_sending_str = <<>> /\ is_uart_rx_idle = TRUE
            /\ need_update_gui = FALSE /\ rx = 1

\* tx_receive without its last case, which is Receives.
Receives(tx) == tx_state = Stop /\ tx = 1

tx_receive(tx) ==
    /\ tx_state' = CASE tx_state = 0 -> 1 - tx
                     [] tx_state \in 1 .. DataBits -> tx_state + 1
                     [] OTHER -> IF tx = 1 THEN 0 ELSE tx_state
    /\ tx_data' = CASE tx_state = 0 -> IF tx = 0 THEN Nul ELSE tx_data
                    [] tx_state \in 1 .. DataBits -> ShiftIn(tx_data, tx)
                    [] OTHER -> tx_data
    /\ need_update_gui' = (need_update_gui \/ Receives(tx))

\* The string's first character, which is NUL when there is none.
Front == IF rx_sending_str = <<>> THEN Nul ELSE Head(rx_sending_str)

Stops_short == rx_state = Stop - 1
Stops       == rx_state = Stop

rx_send ==
    \/ /\ rx_state = 0 /\ Front = Nul
       /\ rx_data' = Nul /\ is_uart_rx_idle' = TRUE
       /\ UNCHANGED <<rx_state, rx_sending_str, rx>>
    \/ /\ rx_state = 0 /\ Front # Nul
       /\ rx_data' = Front
       /\ rx_sending_str' = Tail(rx_sending_str)
       /\ rx' = 0 /\ rx_state' = 1
       /\ UNCHANGED is_uart_rx_idle
    \/ /\ rx_state > 0 /\ ~Stops
       /\ rx' = rx_data[1] /\ rx_data' = ShiftIn(rx_data, 0)
       /\ rx_state' = rx_state + 1
       /\ UNCHANGED <<rx_sending_str, is_uart_rx_idle>>
    \/ /\ Stops
       /\ rx' = 1 /\ rx_state' = 0
       /\ UNCHANGED <<rx_data, rx_sending_str, is_uart_rx_idle>>

Wakes_never == FALSE
Wakes       == TRUE

rx_getchar(ch) ==
    /\ rx_sending_str' = Append(rx_sending_str, ch)
    /\ is_uart_rx_idle' = (is_uart_rx_idle /\ ~Wakes)
    /\ UNCHANGED <<uart_divisor_cnt, tx_state, tx_data, rx_state, rx_data,
                   need_update_gui, rx>>

\* Called for each frame; it redraws at most UART_TX_FPS times a second.
update_state == /\ need_update_gui
                /\ need_update_gui' = FALSE
                /\ update_gui
                /\ UNCHANGED <<uart_divisor_cnt, tx_state, tx_data, rx_state, rx_data,
                               rx_sending_str, is_uart_rx_idle, rx>>

-----------------------------------------------------------------------------
UartTypeOK == /\ uart_divisor_cnt \in 0 .. divisor - 1
              /\ tx_state \in 0 .. Stop /\ tx_data \in Char
              /\ rx_state \in 0 .. Stop /\ rx_data \in Char
              /\ rx_sending_str \in Seq(Char) /\ is_uart_rx_idle \in BOOLEAN
              /\ need_update_gui \in BOOLEAN /\ rx \in {0, 1}
=============================================================================
