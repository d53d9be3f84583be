SPECIFICATION Spec
CONSTANTS
    rx_power = rx_power
    voltage = voltage
    link_loss = link_loss
    Alarm = {rx_power, voltage, link_loss}
    Polled = {rx_power, voltage}
INVARIANTS
    TimerWhileNeeded
PROPERTIES
    AlarmFollowsCause
