SPECIFICATION Spec
CONSTANTS
  time_chunk_length = 4
  timeline_depth = 3
  planning_step = 8
  pulse_planning_depth = 3
  pulse_train_planning_depth = 5
  phase_delay = 8
  au_command_delay = 16
  blank_delay = 1
  frequency_delay = 1
  channel_switch_delay = 1
  reserve_time = 2
  duty_factor = 2
  frequency_factor = 1
  second = 256
  speed <- AnyPriority
  threshold <- AnyPriority
  last_time = 7
PROPERTY RingKeepsLabels
